---- MODULE Spec2Model ----
(***************************************************************************)
(* Model of the Basecamp -> Fizzy migration tool.                          *)
(*                                                                         *)
(* Eleven specifications share the module:                                *)
(*   SpecRetry   one client request: axios interceptors + withRetry        *)
(*   SpecMarker  the pure functions mapCard / extractBasecampId            *)
(*   SpecLimiter the token bucket RateLimiter with interleaved callers     *)
(*   SpecUsers   mapUsers, called by map-users and by migration runs       *)
(*   SpecState   the RunState documents of concurrent runs, and resume     *)
(*   Spec        runMigration, run repeatedly against one destination board*)
(*   SpecRetryFair SpecRetry where every request, refresh and sleep ends   *)
(*   SpecCard    migrateCard on one record, over all records and actions   *)
(*   SpecPages   getAllCardsFromColumn over a column of several pages      *)
(*   SpecColumns phase2_columns / mapColumns over varied column lists      *)
(*   SpecDetect  the pure function detectColumnType                        *)
(***************************************************************************)
EXTENDS Integers, Sequences, FiniteSets, TLC

VARIABLES
    \* ---- one client request (SpecRetry) ----
    rq_pc,        \* "idle" | "inflight" | "refreshing" | "sleeping" | "returned" | "thrown"
    rq_client,    \* "fizzy" | "basecamp": whose get/post/put/delete was called
    rq_attempt,   \* withRetry's loop variable attempt
    rq_calls,     \* number of times withRetry invoked fn
    rq_sends,     \* number of HTTP requests put on the wire
    rq_refreshes, \* refreshAccessToken calls within the current invocation of fn
    rq_log,       \* per invocation of fn: the error it threw, or the success
    rq_http,      \* per invocation of fn: the last HTTP response it got
    rq_slept,     \* the delays (ms) withRetry slept, in order
    rq_thrown,    \* the error withRetry threw (NoError while none)
    \* ---- mapCard / extractBasecampId (SpecMarker) ----
    mk_pc,        \* "input" | "mapped" | "scanned"
    mk_card,      \* the source card [id, title, content]
    mk_out,       \* mapCard's result [title, description]
    mk_found,     \* what the marker pattern extracted from mk_out.description
    \* ---- RateLimiter (SpecLimiter) ----
    rl_rate,      \* requestsPerSecond: maxTokens and refillRate
    rl_now,       \* Date.now(), in ms since the limiter was constructed
    rl_tokens,    \* this.tokens, in thousandths of a token
    rl_lastRefill, \* this.lastRefill (ms)
    rl_callers,   \* per caller of acquire: where it is, and when its sleep ends
    rl_granted,   \* the times (ms) at which acquire calls completed, in order
    \* ---- runMigration (Spec) ----
    pc,           \* position of the run inside runMigration / migrateCard
    runs,         \* number of runMigration calls started so far
    opts,         \* the options of the current run
    board,        \* destination board: the cards it holds, in creation order
    columns,      \* destination board: the titles of its columns, in order
    migration,    \* the RunState object of the current run
    disk,         \* the RunState document last written by saveMigrationState
    colIdx,       \* phase4_cards: index of the current source column
    batchStart,   \* phase4_cards: i, offset of the current batch in the column
    inBatch,      \* phase4_cards: index of the current card inside the batch
    processedCount, \* phase4_cards: processedCount
    cur,          \* migrateCard: locals of the card being migrated
    failures,     \* number of remote calls that have failed so far
    attempted,    \* source ids migrateCard was called for, this run, in order
    scan,         \* the duplicate scan of this run: the map it built, whether it failed
    cardThrew,    \* TRUE when the previous step was migrateCard throwing
    mutations,    \* the mutating destination calls issued since the command started
    \* ---- mapUsers (SpecUsers) ----
    um_bc,        \* basecampUsers: the email of each source user, by position
    um_config,    \* config.mappings.users: per source user the fizzy_id, 0 for none
    um_stored,    \* per source user the fizzy_id an earlier command stored, 0 for none
    um_pc,        \* "off" | "idle" | "loop"
    um_cmd,       \* the command that called mapUsers: "map-users" | "migrate"
    um_interactive, \* options.interactive
    um_mappings,  \* mapUsers: mappings
    um_idx,       \* mapUsers: position of bcUser in basecampUsers
    um_prompts,   \* the prompts shown since the command started: [user, kind]
    um_skipped,   \* stats.skipped
    um_cmds,      \* number of commands started so far
    \* ---- RunState documents (SpecState) ----
    sd_now,       \* Date.now() (ms)
    sd_docs,      \* the migrations directory: per migration_id the document, or NoDoc
    sd_procs,     \* per migrate process: where it is and its RunState object
    sd_resume,    \* the resume command: where it is and the RunState it loaded
    sd_dest,      \* number of mutating calls made to the destination
    \* ---- migrateCard on one record (SpecCard) ----
    mc_pc,        \* the call migrateCard is about to make, or "returned" | "threw"
    mc_in,        \* mapCard's metadata for the record, and options.migrateComments
    mc_i,         \* position in the loop over assignee_ids / steps / comments
    mc_calls,     \* the destination calls migrateCard issued, in order
    mc_warnings,  \* the warnings migrateCard added, in order
    mc_thrown,    \* the call whose error migrateCard threw, "" while none
    \* ---- getAllCardsFromColumn (SpecPages) ----
    pg_pc,        \* "idle" | "fetch" | "returned" | "thrown"
    pg_server,    \* the column's pages at the source: per page its cards and Link header
    pg_page,      \* paginateCards: page
    pg_allCards,  \* getAllCardsFromColumn: allCards
    pg_requests,  \* the page parameters of the getCards requests of this invocation
    pg_calls,     \* number of getAllCardsFromColumn invocations so far
    pg_result,    \* what the last finished invocation returned
    \* ---- mapColumns / phase2_columns (SpecColumns) ----
    cm_pc,        \* "off" | "columns" | "done" | "thrown"
    cm_bc,        \* basecampColumns: per column its id, type tag and title
    cm_fizzy,     \* fizzyColumns: the titles getColumns returned, by id
    cm_dryRun,    \* options.dryRun
    cm_result,    \* what mapColumns built: mappings, destination columns, created
    cm_columns_created, \* migration.metadata.columns_created
    \* ---- detectColumnType (SpecDetect) ----
    dt_column,    \* the column passed to detectColumnType
    dt_type       \* what detectColumnType returned, "" before the call

retryVars  == <<rq_pc, rq_client, rq_attempt, rq_calls, rq_sends, rq_refreshes,
                rq_log, rq_http, rq_slept, rq_thrown>>
markerVars == <<mk_pc, mk_card, mk_out, mk_found>>
runVars    == <<pc, runs, opts, board, columns, migration, disk, colIdx, batchStart,
                inBatch, processedCount, cur, failures, attempted, scan, cardThrew,
                mutations>>
limiterVars == <<rl_rate, rl_now, rl_tokens, rl_lastRefill, rl_callers, rl_granted>>
userVars   == <<um_bc, um_config, um_stored, um_pc, um_cmd, um_interactive, um_mappings,
                um_idx, um_prompts, um_skipped, um_cmds>>
stateVars  == <<sd_now, sd_docs, sd_procs, sd_resume, sd_dest>>
cardVars   == <<mc_pc, mc_in, mc_i, mc_calls, mc_warnings, mc_thrown>>
pageVars   == <<pg_pc, pg_server, pg_page, pg_allCards, pg_requests, pg_calls, pg_result>>
columnVars == <<cm_pc, cm_bc, cm_fizzy, cm_dryRun, cm_result, cm_columns_created>>
detectVars == <<dt_column, dt_type>>
vars       == <<retryVars, markerVars, limiterVars, runVars, userVars, stateVars,
                cardVars, pageVars, columnVars, detectVars>>

(***************************************************************************)
(* Generic helpers                                                         *)
(***************************************************************************)
Min(a, b) == IF a < b THEN a ELSE b

RECURSIVE Pow2(_)
Pow2(n) == IF n = 0 THEN 1 ELSE 2 * Pow2(n - 1)

\* Strings are sequences of one-character strings.
UpperCase == <<"A", "B", "C", "D", "E", "F", "G", "H", "I", "J", "K", "L", "M", "N", "O", "P", "Q", "R", "S", "T", "U", "V", "W", "X", "Y", "Z">>
LowerCase == <<"a", "b", "c", "d", "e", "f", "g", "h", "i", "j", "k", "l", "m", "n", "o", "p", "q", "r", "s", "t", "u", "v", "w", "x", "y", "z">>

\* String.prototype.toLowerCase
ToLowerCase(s) ==
    [i \in 1..Len(s) |->
        IF \E k \in 1..Len(UpperCase) : UpperCase[k] = s[i]
        THEN LowerCase[CHOOSE k \in 1..Len(UpperCase) : UpperCase[k] = s[i]]
        ELSE s[i]]

\* String.prototype.includes
Includes(s, sub) ==
    \E i \in 1..(Len(s) - Len(sub) + 1) : SubSeq(s, i, i + Len(sub) - 1) = sub

(***************************************************************************)
(* withRetry and the clients' interceptors                                 *)
(***************************************************************************)
maxRetries == 3
baseDelay  == 1000
maxDelay   == 30000
DefaultRetryAfter == 5

\* Retry-After header values (seconds) the server may send; 0 = header absent.
MaxRetryAfter == 7
RetryAfterValues == {0, 2, MaxRetryAfter}

\* Shape of the response body of a failed request:
\*   "none"   no body (undefined / empty string)
\*   "plain"  a body without a status member
\*   "status" a JSON body repeating the HTTP status in a status member,
\*            e.g. {"status":404,"error":"Not Found"}
BodyKinds == {"none", "plain", "status"}

ErrorStatuses == {401, 404, 429, 500}

\* What the server (or the network) answers to one HTTP request.
\* status 0: no response at all (network error); status 200: success.
HttpOutcomes ==
    {[status |-> 200, body |-> "plain", retryAfter |-> 0]}
    \cup {[status |-> 0, body |-> "none", retryAfter |-> 0]}
    \cup {[status |-> s, body |-> b, retryAfter |-> ra] :
              s \in ErrorStatuses \ {429}, b \in BodyKinds, ra \in {0}}
    \cup {[status |-> 429, body |-> b, retryAfter |-> ra] :
              b \in BodyKinds, ra \in RetryAfterValues}

\* error.response as withRetry sees it. present = FALSE: undefined/falsy.
\* status 0: no status member. hasHeaders: a headers member exists.
NoResponse == [present |-> FALSE, status |-> 0, hasHeaders |-> FALSE, retryAfter |-> 0]

NoError == [name |-> "none", statusCode |-> 0, response |-> NoResponse]
Success == [name |-> "ok", statusCode |-> 0, response |-> NoResponse]

\* new ApiError(error.message, error.response?.status, error.response?.data):
\* statusCode carries the HTTP status, response carries the response BODY.
ApiError(http) ==
    [name       |-> "ApiError",
     statusCode |-> http.status,
     response   |-> [present    |-> http.body # "none",
                     status     |-> IF http.body = "status" THEN http.status ELSE 0,
                     hasHeaders |-> FALSE,
                     retryAfter |-> 0]]

AuthenticationError == [name |-> "AuthenticationError", statusCode |-> 0, response |-> NoResponse]

\* Reading error.response.headers['retry-after'] when headers is undefined.
TypeError == [name |-> "TypeError", statusCode |-> 0, response |-> NoResponse]

\* A backoff that doubles from the first delay on.
BackoffDelayDoubled(attempt) == Min(baseDelay * Pow2(attempt), maxDelay)

\* Exponential backoff delay after failed attempt n.
BackoffDelay(attempt) == Min(baseDelay * Pow2(attempt - 1), maxDelay)

\* The catch block of withRetry for `error` thrown by attempt `attempt`.
\* Returns what the block does: throw error / throw TypeError / sleep then
\* next attempt / leave the loop and throw lastError.
CatchBlock(error, attempt) ==
    LET resp   == error.response
        status == resp.status
        backoff == IF attempt = maxRetries
                   THEN [do |-> "break", delay |-> 0]
                   ELSE [do |-> "sleep", delay |-> BackoffDelay(attempt)]
    IN  IF resp.present
        THEN IF status >= 400 /\ status < 500 /\ status # 429
             THEN [do |-> "throw", delay |-> 0]
             ELSE IF status = 429
                  THEN IF ~resp.hasHeaders
                       THEN [do |-> "typeerror", delay |-> 0]
                       ELSE IF attempt < maxRetries
                            THEN [do |-> "sleep",
                                  delay |-> (IF resp.retryAfter = 0
                                             THEN DefaultRetryAfter
                                             ELSE resp.retryAfter) * 1000]
                            ELSE backoff
                  ELSE backoff
        ELSE backoff

\* withRetry after fn() of the current attempt rejected with `error`.
WithRetryCatch(error) ==
    LET c == CatchBlock(error, rq_attempt)
    IN  /\ rq_log' = Append(rq_log, error)
        /\ CASE c.do = "throw"     -> /\ rq_pc' = "thrown"
                                      /\ rq_thrown' = error
                                      /\ UNCHANGED rq_slept
             [] c.do = "typeerror" -> /\ rq_pc' = "thrown"
                                      /\ rq_thrown' = TypeError
                                      /\ UNCHANGED rq_slept
             [] c.do = "break"     -> /\ rq_pc' = "thrown"
                                      /\ rq_thrown' = error
                                      /\ UNCHANGED rq_slept
             [] c.do = "sleep"     -> /\ rq_pc' = "sleeping"
                                      /\ rq_slept' = Append(rq_slept, c.delay)
                                      /\ UNCHANGED rq_thrown

\* client.get/post/put/delete: withRetry(() => this.client.<verb>(...)),
\* first attempt; the request interceptor lets the request out.
Request(client) ==
    /\ rq_pc = "idle"
    /\ rq_client' = client
    /\ rq_attempt' = 1
    /\ rq_calls' = 1
    /\ rq_sends' = 1
    /\ rq_pc' = "inflight"
    /\ rq_log' = <<>>
    /\ rq_http' = <<>>
    /\ rq_slept' = <<>>
    /\ rq_thrown' = NoError
    /\ rq_refreshes' = 0
    /\ UNCHANGED <<markerVars, limiterVars, runVars, userVars, stateVars,
                   cardVars, pageVars, columnVars, detectVars>>

\* Bound on the token refreshes within one invocation of the wrapped call.
MaxRefreshes == 2

\* The response interceptor on an HTTP answer, then withRetry's try/catch.
Respond(http) ==
    /\ rq_pc = "inflight"
    /\ IF http.status = 200
       THEN /\ rq_pc' = "returned"
            /\ rq_log' = Append(rq_log, Success)
            /\ rq_http' = Append(rq_http, http)
            /\ UNCHANGED <<rq_slept, rq_thrown>>
       ELSE IF rq_client = "basecamp" /\ http.status = 401
            THEN \* a refresh token is held: refresh, then re-send
                 /\ rq_refreshes < MaxRefreshes
                 /\ rq_pc' = "refreshing"
                 /\ UNCHANGED <<rq_log, rq_http, rq_slept, rq_thrown>>
            ELSE /\ rq_http' = Append(rq_http, http)
                 /\ WithRetryCatch(ApiError(http))
    /\ UNCHANGED <<rq_client, rq_attempt, rq_calls, rq_sends, rq_refreshes, markerVars, limiterVars, runVars, userVars, stateVars,
                   cardVars, pageVars, columnVars, detectVars>>

\* refreshAccessToken succeeded: this.client.request(error.config) re-sends
\* the request through the same interceptors.
RefreshOk ==
    /\ rq_pc = "refreshing"
    /\ rq_refreshes' = rq_refreshes + 1
    /\ rq_sends' = rq_sends + 1
    /\ rq_pc' = "inflight"
    /\ UNCHANGED <<rq_client, rq_attempt, rq_calls, rq_log, rq_http, rq_slept, rq_thrown, markerVars, limiterVars, runVars, userVars, stateVars,
                   cardVars, pageVars, columnVars, detectVars>>

\* refreshAccessToken threw: AuthenticationError reaches withRetry's catch.
RefreshFail ==
    /\ rq_pc = "refreshing"
    /\ rq_refreshes' = rq_refreshes + 1
    /\ rq_http' = Append(rq_http, [status |-> 401, body |-> "none", retryAfter |-> 0])
    /\ WithRetryCatch(AuthenticationError)
    /\ UNCHANGED <<rq_client, rq_attempt, rq_calls, rq_sends, markerVars, limiterVars, runVars, userVars, stateVars,
                   cardVars, pageVars, columnVars, detectVars>>

\* sleep(delay) is over: the for loop's attempt++ and the next fn().
Wake ==
    /\ rq_pc = "sleeping"
    /\ rq_attempt' = rq_attempt + 1
    /\ rq_calls' = rq_calls + 1
    /\ rq_sends' = rq_sends + 1
    /\ rq_refreshes' = 0
    /\ rq_pc' = "inflight"
    /\ UNCHANGED <<rq_client, rq_log, rq_http, rq_slept, rq_thrown, markerVars, limiterVars, runVars, userVars, stateVars,
                   cardVars, pageVars, columnVars, detectVars>>

(***************************************************************************)
(* Claims about the transport (checked under SpecRetry)                    *)
(***************************************************************************)
IsClientError(http) == http.status >= 400 /\ http.status < 500 /\ http.status # 429

\* C8: a request that fails with a 4xx status other than 429 is attempted
\* exactly once: after such an answer to invocation k of the wrapped call
\* there is no further invocation and no backoff delay.
C8_ClientErrorNotRetried ==
    \A k \in 1..Len(rq_http) :
        IsClientError(rq_http[k]) => rq_calls = k /\ Len(rq_slept) < k

\* C9: after an attempt answered 429 the next attempt waits the Retry-After
\* seconds of that answer (5 s when the header is absent); 429 answers use
\* the same budget of 3 attempts, after which the 429 error is thrown.
C9_RetryAfterHonoured ==
    /\ \A k \in 1..Len(rq_slept) :
          rq_http[k].status = 429 =>
              rq_slept[k] = (IF rq_http[k].retryAfter = 0
                             THEN DefaultRetryAfter
                             ELSE rq_http[k].retryAfter) * 1000
    /\ (rq_pc = "thrown" /\ rq_http[Len(rq_http)].status = 429) =>
          /\ rq_thrown = ApiError(rq_http[Len(rq_http)])
          /\ \/ rq_calls = maxRetries
             \/ \E k \in 1..Len(rq_http) : rq_http[k].status # 429

\* C10: withRetry invokes the wrapped call at most maxRetries times, returns
\* at the first success, and when every attempt failed throws the error of
\* the last attempt.
C10_WithRetryContract ==
    /\ rq_calls <= maxRetries
    /\ rq_pc = "returned" =>
          /\ Len(rq_log) = rq_calls
          /\ rq_log[rq_calls] = Success
          /\ \A k \in 1..(rq_calls - 1) : rq_log[k] # Success
    /\ rq_pc = "thrown" =>
          /\ Len(rq_log) = rq_calls
          /\ rq_thrown = rq_log[rq_calls]

\* C32: after failed attempt n < maxRetries whose failure is a network
\* error or a 5xx answer, withRetry sleeps min(1000 * 2^(n-1), 30000) ms, and
\* it never sleeps after the last attempt.
C32_ExponentialBackoff ==
    /\ \A n \in 1..Len(rq_log) :
          (n < maxRetries /\ (rq_http[n].status = 0 \/ rq_http[n].status >= 500))
             => /\ Len(rq_slept) >= n
                /\ rq_slept[n] = Min(1000 * Pow2(n - 1), 30000)
    /\ Len(rq_slept) <= maxRetries - 1
    /\ Len(rq_log) = maxRetries => rq_pc \in {"returned", "thrown"}

C32_Witness ==
    /\ rq_pc = "thrown"
    /\ Len(rq_log) = maxRetries
    /\ \A n \in 1..maxRetries : rq_http[n].status \in {0, 500}
    /\ rq_http[1].status # rq_http[2].status
    /\ rq_slept = <<1000, 2000>>

\* C18: a Basecamp request answered 401 is refreshed and re-sent once per
\* invocation: a 401 on the re-sent request causes no second refresh and no
\* second re-send; a failed refresh reaches the caller's retry loop as an
\* AuthenticationError.
C18_RefreshOnce ==
    /\ rq_refreshes <= 1
    /\ rq_sends <= 2 * rq_calls
    /\ rq_client = "fizzy" => rq_refreshes = 0 /\ rq_sends = rq_calls
    /\ \A k \in 1..Len(rq_log) :
          rq_log[k].name = "AuthenticationError" =>
              rq_client = "basecamp" /\ rq_http[k].status = 401

(***************************************************************************)
(* Strings, mapCard and the duplicate marker                               *)
(***************************************************************************)
\* A string is a sequence of one-character strings.
Digits == <<"0", "1", "2", "3", "4", "5", "6", "7", "8", "9">>
DigitChars == {Digits[i] : i \in 1..10}
Whitespace == {" ", "\n"}

\* Number.prototype.toString / template interpolation of a non-negative id.
RECURSIVE Dec(_)
Dec(n) == IF n < 10 THEN <<Digits[n + 1]>> ELSE Dec(n \div 10) \o <<Digits[(n % 10) + 1]>>

\* String.prototype.trim
RECURSIVE TrimLeft(_)
TrimLeft(s) == IF s # <<>> /\ Head(s) \in Whitespace THEN TrimLeft(Tail(s)) ELSE s
RECURSIVE TrimRight(_)
TrimRight(s) ==
    IF s # <<>> /\ s[Len(s)] \in Whitespace THEN TrimRight(SubSeq(s, 1, Len(s) - 1)) ELSE s
Trim(s) == TrimRight(TrimLeft(s))

MAX_TITLE_LENGTH == 255

MarkerPrefix == <<"#", "b", "a", "s", "e", "c", "a", "m", "p", "-", "i", "d", "-">>
Divider == <<"\n", "\n", "-", "-", "-", "\n", "\n">>
BlankLine == <<"\n", "\n">>

convertBasecampToFizzyHTML(html) == IF html = <<>> THEN <<>> ELSE Trim(html)

\* A mapCard that cuts the title and drops what it cut.
mapCardCut(basecampCard) ==
    LET description0 == IF basecampCard.content # <<>>
                        THEN convertBasecampToFizzyHTML(basecampCard.content)
                        ELSE <<>>
        title == SubSeq(basecampCard.title, 1, Min(MAX_TITLE_LENGTH, Len(basecampCard.title)))
        basecampMarker == MarkerPrefix \o Dec(basecampCard.id)
        description == IF description0 # <<>>
                       THEN description0 \o BlankLine \o basecampMarker
                       ELSE basecampMarker
    IN  [title |-> title, description |-> description]

\* mapCard: the card payload (title and description) built from a source card.
mapCard(basecampCard) ==
    LET description0 == IF basecampCard.content # <<>>
                        THEN convertBasecampToFizzyHTML(basecampCard.content)
                        ELSE <<>>
        title0 == basecampCard.title
        overflow == Len(title0) > MAX_TITLE_LENGTH
        truncatedPart == SubSeq(title0, MAX_TITLE_LENGTH + 1, Len(title0))
        title == IF overflow THEN SubSeq(title0, 1, MAX_TITLE_LENGTH) ELSE title0
        description1 == IF overflow
                        THEN IF description0 # <<>>
                             THEN truncatedPart \o Divider \o description0
                             ELSE truncatedPart
                        ELSE description0
        basecampMarker == MarkerPrefix \o Dec(basecampCard.id)
        description == IF description1 # <<>>
                       THEN description1 \o BlankLine \o basecampMarker
                       ELSE basecampMarker
    IN  [title |-> title, description |-> description]

\* Positions where /#basecamp-id-(\d+)/ can match in s.
MatchPositions(s) ==
    {p \in 1..Len(s) :
        /\ p + Len(MarkerPrefix) <= Len(s)
        /\ SubSeq(s, p, p + Len(MarkerPrefix) - 1) = MarkerPrefix
        /\ s[p + Len(MarkerPrefix)] \in DigitChars}

\* The greedy \d+ run starting at position q of s.
RECURSIVE DigitRun(_, _)
DigitRun(s, q) ==
    IF q <= Len(s) /\ s[q] \in DigitChars THEN <<s[q]>> \o DigitRun(s, q + 1) ELSE <<>>

\* description.match(/#basecamp-id-(\d+)/): group 1 of the leftmost match,
\* <<>> standing for null (no match).
MatchMarker(s) ==
    IF MatchPositions(s) = {} THEN <<>>
    ELSE LET p == CHOOSE x \in MatchPositions(s) : \A y \in MatchPositions(s) : x <= y
         IN  DigitRun(s, p + Len(MarkerPrefix))

extractBasecampId(description) ==
    IF description = <<>> THEN <<>> ELSE MatchMarker(description)

\* Inputs: contents are concatenations of at most MaxPieces pieces.
MaxPieces == 2
Pieces == {MarkerPrefix, <<"7">>, <<" ">>, <<"x">>, <<"#">>}
RECURSIVE Concats(_)
Concats(n) ==
    IF n = 0 THEN {<<>>}
    ELSE Concats(n - 1) \cup {c \o q : c \in Concats(n - 1), q \in Pieces}
Contents == Concats(MaxPieces)

Rep(c, n) == [i \in 1..n |-> c]
Titles == {<<"t">>, Rep("a", MAX_TITLE_LENGTH)}
          \cup {Rep("a", MAX_TITLE_LENGTH) \o q \o r : q \in Pieces, r \in {<<>>, <<"7">>}}
MarkerIds == {7, 12, 482}

MapCardStep ==
    /\ mk_pc = "input"
    /\ mk_out' = mapCard(mk_card)
    /\ mk_pc' = "mapped"
    /\ UNCHANGED <<mk_card, mk_found, retryVars, limiterVars, runVars, userVars, stateVars,
                   cardVars, pageVars, columnVars, detectVars>>

ScanStep ==
    /\ mk_pc = "mapped"
    /\ mk_found' = extractBasecampId(mk_out.description)
    /\ mk_pc' = "scanned"
    /\ UNCHANGED <<mk_card, mk_out, retryVars, limiterVars, runVars, userVars, stateVars,
                   cardVars, pageVars, columnVars, detectVars>>

\* C4: marker round trip: the id extracted from the description mapCard
\* produces is the card's own id, for any title and any content.
C4_MarkerRoundTrip ==
    mk_pc = "scanned" => mk_found = Dec(mk_card.id)

\* The part of a source title beyond MAX_TITLE_LENGTH characters.
Overflow(title) == SubSeq(title, MAX_TITLE_LENGTH + 1, Len(title))

TRIAGE  == "Kanban::Triage"
NOT_NOW == "Kanban::NotNowColumn"
DONE    == "Kanban::DoneColumn"
REGULAR == "Kanban::Column"

\* cardTable.lists with the cards getAllCardsFromColumn returns for each.
SourceColumns ==
    << [id |-> 1, type |-> TRIAGE,  title |-> <<"T", "r", "i", "a", "g", "e">>, cards |-> <<1, 2>>],
       [id |-> 2, type |-> REGULAR, title |-> <<"I", "n", " ", "P", "r", "o", "g", "r", "e", "s", "s">>, cards |-> <<3, 4, 5>>] >>

\* The source cards: completion flag, assignees (source user ids), checklist
\* steps (each given by the source user id of its assignee, 0 for a step
\* without assignee), number of comments. Their texts hold no marker-shaped
\* token, so the marker found in a migrated card is the card's own id.
SourceCards ==
    [id \in {1, 2, 3, 4, 5} |->
        CASE id = 1 -> [completed |-> FALSE, assignees |-> <<>>,  steps |-> <<>>,  comments |-> 0]
          [] id = 2 -> [completed |-> TRUE,  assignees |-> <<1>>, steps |-> <<1>>, comments |-> 0]
          [] id = 3 -> [completed |-> FALSE, assignees |-> <<2>>, steps |-> <<>>,  comments |-> 1]
          [] id = 4 -> [completed |-> FALSE, assignees |-> <<>>,  steps |-> <<>>,  comments |-> 0]
          [] id = 5 -> [completed |-> FALSE, assignees |-> <<>>,  steps |-> <<>>,  comments |-> 0]]

SourceIds == DOMAIN SourceCards

RECURSIVE SumCards(_)
SumCards(n) == IF n = 0 THEN 0 ELSE Len(SourceColumns[n].cards) + SumCards(n - 1)
TotalCards == SumCards(Len(SourceColumns))

\* Source users whose email equals the email of a destination user.
MatchedUsers == {1}

\* Bounds of the model.
MaxRuns == 2   \* runMigration calls against the board
MaxFailures == 1   \* remote calls that fail, over all runs
MaxForeign == 1   \* cards on the board that no migration created
PageSize == 2   \* cards per page of the destination's card listing
MaxBatch == 2   \* largest batch size tried

\* options.batchSize as phase4_cards receives it: a number (a caller of
\* runMigration passing one), a string of digits (the command line passes
\* the option's text), or undefined (a caller passing none: the default
\* runMigration destructures is not handed on to phase4_cards).
BatchSizes ==
    {[kind |-> k, n |-> n] : k \in {"number", "string"}, n \in 1..MaxBatch}
    \cup {[kind |-> "undefined", n |-> 0]}

\* NaN as a value of the loop variable i.
NaN == 0 - 1

\* 10 ^ (number of decimal digits of n)
RECURSIVE Shift(_)
Shift(n) == IF n < 10 THEN 10 ELSE 10 * Shift(n \div 10)

\* i + batchSize: a sum for a number; for a string the concatenation of the
\* text of i and the string, read back as a number where one is needed;
\* NaN for undefined.
Plus(i, batchSize) ==
    CASE batchSize.kind = "number"    -> i + batchSize.n
      [] batchSize.kind = "string"    -> i * Shift(batchSize.n) + batchSize.n
      [] batchSize.kind = "undefined" -> NaN

\* getColumnAction
getColumnAction(columnType, columnId) ==
    CASE columnType = TRIAGE  -> [type |-> "keep_triage", target |-> 0]
      [] columnType = NOT_NOW -> [type |-> "not_now", target |-> 0]
      [] columnType = DONE    -> [type |-> "close", target |-> 0]
      [] OTHER                -> [type |-> "triage_to_column", target |-> columnId]

NoAction == [type |-> "none", target |-> 0]

\* createMigrationState; existing_cards maps a source id to a card number,
\* 0 standing for an absent key.
createMigrationState ==
    [status           |-> "in_progress",
     completed_at     |-> FALSE,
     current_phase    |-> "initialization",
     processed_cards  |-> 0,
     successful_cards |-> 0,
     failed_cards     |-> 0,
     skipped_cards    |-> 0,
     comments_migrated |-> 0,
     steps_migrated   |-> 0,
     columns_created  |-> 0,
     column_mappings  |-> [c \in 1..Len(SourceColumns) |-> NoAction],
     user_mappings    |-> {},
     existing_cards   |-> [id \in SourceIds |-> 0],
     failed_items     |-> <<>>,
     warnings         |-> <<>>]

NoMigration == [createMigrationState EXCEPT !.status = "none"]

\* updateProgress(migration, {current_phase: phase})
updateProgress(m, phase) == [m EXCEPT !.current_phase = phase]

\* addWarning
addWarning(m, what) == [m EXCEPT !.warnings = Append(@, what)]

\* addFailedItem(migration, 'card', card, error)
addFailedItem(m, id) == [m EXCEPT !.failed_items = Append(@, id)]

\* completeMigration
completeMigration(m, status) ==
    [m EXCEPT !.status = status, !.completed_at = TRUE, !.current_phase = "completed"]

NoScan == [found |-> [id \in SourceIds |-> 0], failed |-> FALSE]

NoCard == [id |-> 0, number |-> 0, ai |-> 0, si |-> 0, ci |-> 0]

RunIdle ==
    /\ pc = "off"
    /\ runs = 0
    /\ opts = [migrateComments |-> FALSE, updateExisting |-> FALSE, dryRun |-> FALSE,
               batchSize |-> [kind |-> "number", n |-> 1], skipUserMapping |-> FALSE]
    /\ board = <<>>
    /\ columns = <<>>
    /\ migration = NoMigration
    /\ disk = NoMigration
    /\ colIdx = 0
    /\ batchStart = 0
    /\ inBatch = 0
    /\ processedCount = 0
    /\ cur = NoCard
    /\ failures = 0
    /\ attempted = <<>>
    /\ scan = NoScan
    /\ cardThrew = FALSE
    /\ mutations = {}

Options == [migrateComments : BOOLEAN, updateExisting : BOOLEAN, dryRun : BOOLEAN,
            batchSize : BatchSizes, skipUserMapping : BOOLEAN]

\* A remote call may fail (throw after its retries) while the budget lasts.
MayFail == failures < MaxFailures

(***************************************************************************)
(* runMigration                                                            *)
(***************************************************************************)
loopVars == <<colIdx, batchStart, inBatch, processedCount>>

\* migrateCommand: with --create-board a new, empty board is created and
\* becomes the target; then runMigration(clients, source, target, options)
\* is called.
StartRun(o, createBoard) ==
    /\ pc = "idle"
    /\ runs < MaxRuns
    /\ runs' = runs + 1
    /\ opts' = o
    /\ pc' = "discovery"
    /\ migration' = NoMigration
    /\ disk' = NoMigration
    /\ colIdx' = 0
    /\ batchStart' = 0
    /\ inBatch' = 0
    /\ processedCount' = 0
    /\ cur' = NoCard
    /\ attempted' = <<>>
    /\ scan' = NoScan
    /\ cardThrew' = FALSE
    /\ board' = IF createBoard THEN <<>> ELSE board
    /\ columns' = IF createBoard THEN <<>> ELSE columns
    /\ mutations' = IF createBoard THEN {"createBoard"} ELSE {}
    /\ UNCHANGED <<failures, retryVars, markerVars, limiterVars, userVars, stateVars,
                   cardVars, pageVars, columnVars, detectVars>>

\* The command is over (runMigration returned or threw) and the process
\* exits: the destination keeps its state, the run's objects are gone.
Exit ==
    /\ pc \in {"done", "aborted"}
    /\ pc' = "idle"
    /\ opts' = [migrateComments |-> FALSE, updateExisting |-> FALSE, dryRun |-> FALSE,
                batchSize |-> [kind |-> "number", n |-> 1], skipUserMapping |-> FALSE]
    /\ migration' = NoMigration
    /\ disk' = NoMigration
    /\ colIdx' = 0
    /\ batchStart' = 0
    /\ inBatch' = 0
    /\ processedCount' = 0
    /\ cur' = NoCard
    /\ attempted' = <<>>
    /\ scan' = NoScan
    /\ cardThrew' = FALSE
    /\ mutations' = {}
    /\ UNCHANGED <<runs, board, columns, failures, retryVars, markerVars, limiterVars, userVars, stateVars,
                   cardVars, pageVars, columnVars, detectVars>>

\* A run that marks its state failed and saves it before it throws.
AbortMarkFailed ==
    /\ MayFail
    /\ failures' = failures + 1
    /\ pc' = "aborted"
    /\ cardThrew' = FALSE
    /\ migration' = completeMigration(migration, "failed")
    /\ disk' = migration'
    /\ UNCHANGED <<mutations, runs, opts, board, columns, loopVars, cur,
                   attempted, scan, retryVars, markerVars, limiterVars, userVars, stateVars,
                   cardVars, pageVars, columnVars, detectVars>>

\* The run throws out of runMigration, which has no catch: nothing more is
\* done or saved.
Abort ==
    /\ MayFail
    /\ failures' = failures + 1
    /\ pc' = "aborted"
    /\ cardThrew' = FALSE
    /\ UNCHANGED <<mutations, runs, opts, board, columns, migration, disk, loopVars, cur,
                   attempted, scan, retryVars, markerVars, limiterVars, userVars, stateVars,
                   cardVars, pageVars, columnVars, detectVars>>

\* Phase 1: phase1_discovery, saveMigrationState, then current_phase is set
\* for phase 2.
Discovery ==
    /\ pc = "discovery"
    /\ migration' = updateProgress(createMigrationState, "column_mapping")
    /\ disk' = createMigrationState
    /\ pc' = "columns"
    /\ UNCHANGED <<mutations, runs, opts, board, columns, loopVars, cur, failures, attempted,
                   scan, cardThrew, retryVars, markerVars, limiterVars, userVars, stateVars,
                   cardVars, pageVars, columnVars, detectVars>>

\* getCardTable, getBoard or a card count of phase 1 throws.
DiscoveryFail == pc = "discovery" /\ Abort

\* The keywords detectColumnType looks for in a title.
TriageWords == {<<"t", "r", "i", "a", "g", "e">>, <<"m", "a", "y", "b", "e">>}
NotNowWords == {<<"n", "o", "t", " ", "n", "o", "w">>, <<"l", "a", "t", "e", "r">>}
DoneWords   == {<<"d", "o", "n", "e">>, <<"c", "o", "m", "p", "l", "e", "t", "e", "d">>}

\* NoColumn stands for null; the type "" for a column without type tag.
NoColumn == [id |-> 0, type |-> "null", title |-> <<>>]

\* A detectColumnType that classifies by the title even when there is a tag.
detectColumnTypeByTitle(column) ==
    IF column = NoColumn THEN REGULAR
    ELSE LET name == ToLowerCase(column.title)
         IN  IF \E w \in TriageWords : Includes(name, w) THEN TRIAGE
             ELSE IF \E w \in NotNowWords : Includes(name, w) THEN NOT_NOW
             ELSE IF \E w \in DoneWords : Includes(name, w) THEN DONE
             ELSE REGULAR

\* detectColumnType: the explicit type tag if there is one, else the title
\* lower-cased and searched for the keywords, else Regular.
detectColumnType(column) ==
    IF column = NoColumn THEN REGULAR
    ELSE IF column.type # "" THEN column.type
    ELSE LET name == ToLowerCase(column.title)
         IN  IF \E w \in TriageWords : Includes(name, w) THEN TRIAGE
             ELSE IF \E w \in NotNowWords : Includes(name, w) THEN NOT_NOW
             ELSE IF \E w \in DoneWords : Includes(name, w) THEN DONE
             ELSE REGULAR

\* A columnsMatch that compares the titles as they are.
columnsMatchExact(basecampColumnName, fizzyColumnTitle) ==
    IF basecampColumnName = <<>> \/ fizzyColumnTitle = <<>> THEN FALSE
    ELSE basecampColumnName = fizzyColumnTitle

\* columnsMatch: false for a missing or empty title, else the titles are
\* compared lower-cased and trimmed.
columnsMatch(basecampColumnName, fizzyColumnTitle) ==
    IF basecampColumnName = <<>> \/ fizzyColumnTitle = <<>> THEN FALSE
    ELSE LET bcName == Trim(ToLowerCase(basecampColumnName))
             fzName == Trim(ToLowerCase(fizzyColumnTitle))
         IN  bcName = fzName

\* findMatchingColumn: index (= id) of the first matching column, 0 for null.
findMatchingColumn(name, fizzyColumns) ==
    IF \E j \in 1..Len(fizzyColumns) : columnsMatch(name, fizzyColumns[j])
    THEN CHOOSE j \in 1..Len(fizzyColumns) :
            /\ columnsMatch(name, fizzyColumns[j])
            /\ \A h \in 1..(j - 1) : ~columnsMatch(name, fizzyColumns[h])
    ELSE 0

\* Id substituted for a column that a dry run would create: dry-run-<id>.
DryRunColumnId(columnId) == 0 - columnId

\* mapColumns over basecampColumns from position k on: r accumulates the
\* mappings, the destination columns (created ones appended), the creation
\* count, and whether a createColumn threw. The matching uses the list
\* fetched before mapColumns (fizzyColumns).
\* withId: whether createColumn returns the created column with its id; it
\* returns {} when the POST answer has no body and no Location header, or
\* when the id in the Location is not found among getColumns' columns.
\* throwAt: the position of the createColumn call that throws, 0 for none.
RECURSIVE mapColumns(_, _, _, _, _, _, _)
mapColumns(basecampColumns, k, fizzyColumns, dryRun, withId, throwAt, r) ==
    IF k > Len(basecampColumns) THEN r
    ELSE LET bcColumn == basecampColumns[k]
             columnType == detectColumnType(bcColumn)
             found == findMatchingColumn(bcColumn.title, fizzyColumns)
         IN  IF columnType \in {TRIAGE, NOT_NOW, DONE}
             THEN mapColumns(basecampColumns, k + 1, fizzyColumns, dryRun, withId, throwAt,
                     [r EXCEPT !.mappings[k] = getColumnAction(columnType, 0)])
             ELSE IF found # 0
             THEN mapColumns(basecampColumns, k + 1, fizzyColumns, dryRun, withId, throwAt,
                     [r EXCEPT !.mappings[k] = getColumnAction(REGULAR, found)])
             ELSE IF dryRun
             THEN mapColumns(basecampColumns, k + 1, fizzyColumns, dryRun, withId, throwAt,
                     [r EXCEPT !.mappings[k] =
                                  getColumnAction(REGULAR, DryRunColumnId(bcColumn.id))])
             ELSE IF r.created + 1 = throwAt
             THEN [r EXCEPT !.thrown = TRUE]
             ELSE mapColumns(basecampColumns, k + 1, fizzyColumns, dryRun, withId, throwAt,
                     [r EXCEPT !.mappings[k] = getColumnAction(REGULAR,
                                                     IF withId THEN Len(r.cols) + 1 ELSE 0),
                               !.cols = Append(@, bcColumn.title),
                               !.created = @ + 1])

\* Phase 2: phase2_columns, saveMigrationState, then current_phase is set
\* for phase 3.
ColumnSetup(withId) ==
    /\ pc = "columns"
    /\ LET r == mapColumns(SourceColumns, 1, columns, opts.dryRun, withId, 0,
                    [mappings |-> migration.column_mappings, cols |-> columns, created |-> 0,
                     thrown |-> FALSE])
           m == [migration EXCEPT !.column_mappings = r.mappings,
                                  !.columns_created = r.created]
       IN  /\ columns' = r.cols
           /\ disk' = m
           /\ migration' = updateProgress(m, "user_mapping")
           /\ mutations' = IF r.created > 0 THEN mutations \cup {"createColumn"} ELSE mutations
    /\ pc' = "users"
    /\ UNCHANGED <<runs, opts, board, loopVars, cur, failures, attempted, scan,
                   cardThrew, retryVars, markerVars, limiterVars, userVars, stateVars,
                   cardVars, pageVars, columnVars, detectVars>>

\* A phase 2 that logs the error of a failed column setup and goes on.
ColumnSetupFailIgnored(stage) ==
    /\ pc = "columns"
    /\ MayFail
    /\ failures' = failures + 1
    /\ migration' = updateProgress(migration, "user_mapping")
    /\ pc' = "users"
    /\ cardThrew' = FALSE
    /\ UNCHANGED <<mutations, runs, opts, board, columns, disk, loopVars, cur, attempted,
                   scan, retryVars, markerVars, limiterVars, userVars, stateVars,
                   cardVars, pageVars, columnVars, detectVars>>

\* Phase 2 throws and the run aborts: getColumns threw, or the first
\* createColumn threw, either at its POST or, the column being created, at
\* the getColumns that follows the POST.
ColumnSetupFail(stage) ==
    /\ pc = "columns"
    /\ MayFail
    /\ failures' = failures + 1
    /\ LET r == mapColumns(SourceColumns, 1, columns, opts.dryRun, TRUE, 0,
                    [mappings |-> migration.column_mappings, cols |-> columns, created |-> 0,
                     thrown |-> FALSE])
       IN  /\ stage # "getColumns" => r.created > 0
           /\ columns' = IF stage = "fetch" THEN Append(columns, r.cols[Len(columns) + 1])
                          ELSE columns
           /\ mutations' = IF stage = "getColumns" THEN mutations
                            ELSE mutations \cup {"createColumn"}
    /\ pc' = "aborted"
    /\ cardThrew' = FALSE
    /\ UNCHANGED <<runs, opts, board, migration, disk, loopVars, cur, attempted, scan,
                   retryVars, markerVars, limiterVars, userVars, stateVars,
                   cardVars, pageVars, columnVars, detectVars>>

\* Phase 3: phase3_users with every prompt answered by its default (accept
\* the email match, skip an unmatched user), or skipped by option; then
\* current_phase is set for phase 4.
UserMapping ==
    /\ pc = "users"
    /\ IF opts.skipUserMapping
       THEN /\ migration' = updateProgress(migration, "card_migration")
            /\ UNCHANGED disk
       ELSE LET m == [migration EXCEPT !.user_mappings = @ \cup MatchedUsers]
            IN  /\ disk' = m
                /\ migration' = updateProgress(m, "card_migration")
    /\ pc' = "scan"
    /\ UNCHANGED <<mutations, runs, opts, board, columns, loopVars, cur, failures, attempted,
                   scan, cardThrew, retryVars, markerVars, limiterVars, userVars, stateVars,
                   cardVars, pageVars, columnVars, detectVars>>

\* getPeople or getUsers throws.
UserMappingFail == pc = "users" /\ ~opts.skipUserMapping /\ Abort

\* fizzyClient.getCards(accountSlug, {board_ids: [boardId]}): one GET
\* without a page parameter, so the first page of the listing.
getCards(b) == SubSeq(b, 1, Min(PageSize, Len(b)))

\* findExistingMigratedCards over the cards result.data: a later card with
\* the same marker overwrites an earlier one.
findExistingMigratedCards(data) ==
    [id \in SourceIds |->
        IF \E n \in 1..Len(data) : data[n].marker = id
        THEN data[CHOOSE n \in 1..Len(data) :
                    /\ data[n].marker = id
                    /\ \A h \in (n + 1)..Len(data) : data[h].marker # id].number
        ELSE 0]

\* Phase 4 begins: the duplicate scan, then the column loop starts.
Scan ==
    /\ pc = "scan"
    /\ LET existingCards == findExistingMigratedCards(getCards(board))
       IN  /\ migration' = [migration EXCEPT !.existing_cards = existingCards]
           /\ scan' = [found |-> existingCards, failed |-> FALSE]
    /\ pc' = "fetch"
    /\ colIdx' = 1
    /\ processedCount' = 0
    /\ UNCHANGED <<mutations, runs, opts, board, columns, disk, batchStart, inBatch, cur, failures,
                   attempted, cardThrew, retryVars, markerVars, limiterVars, userVars, stateVars,
                   cardVars, pageVars, columnVars, detectVars>>

\* getCards throws during the scan: caught, the scan yields the empty map.
ScanFail ==
    /\ pc = "scan"
    /\ MayFail
    /\ failures' = failures + 1
    /\ migration' = [migration EXCEPT !.existing_cards = [id \in SourceIds |-> 0]]
    /\ pc' = "fetch"
    /\ colIdx' = 1
    /\ processedCount' = 0
    /\ scan' = [found |-> [id \in SourceIds |-> 0], failed |-> TRUE]
    /\ UNCHANGED <<mutations, runs, opts, board, columns, disk, batchStart, inBatch, cur,
                   attempted, cardThrew, retryVars, markerVars, limiterVars, userVars, stateVars,
                   cardVars, pageVars, columnVars, detectVars>>

ColumnCards == SourceColumns[colIdx].cards

\* cards.slice(i, i + batchSize).length; an end of NaN is taken as 0.
BatchLen ==
    LET end == Plus(batchStart, opts.batchSize)
    IN  IF end = NaN THEN 0 ELSE Min(end, Len(ColumnCards)) - batchStart

\* The loop test i < cards.length after i += batchSize.
MoreBatches ==
    LET i == Plus(batchStart, opts.batchSize)
    IN  i # NaN /\ i < Len(ColumnCards)

CurrentCard == ColumnCards[batchStart + inBatch]

\* The end of phase4_cards: runMigration saves and sets current_phase.
EndPhase4(m) ==
    /\ disk' = m
    /\ migration' = updateProgress(m, "finalization")
    /\ pc' = "finalize"
    /\ UNCHANGED <<colIdx, batchStart, inBatch>>

\* getAllCardsFromColumn for the current column returned.
FetchColumn ==
    /\ pc = "fetch"
    /\ IF Len(ColumnCards) > 0 /\ opts.batchSize.kind # "undefined"
       THEN /\ batchStart' = 0
            /\ inBatch' = 1
            /\ pc' = "card"
            /\ UNCHANGED <<colIdx, migration, disk>>
       ELSE IF Len(ColumnCards) > 0 /\ colIdx < Len(SourceColumns)
            THEN \* the one, empty batch of slice(0, NaN): saved, then i is NaN
                 /\ colIdx' = colIdx + 1
                 /\ disk' = migration
                 /\ UNCHANGED <<batchStart, inBatch, pc, migration>>
       ELSE IF colIdx < Len(SourceColumns)
            THEN /\ colIdx' = colIdx + 1
                 /\ UNCHANGED <<batchStart, inBatch, pc, migration, disk>>
            ELSE EndPhase4(migration)
    /\ UNCHANGED <<mutations, runs, opts, board, columns, processedCount, cur, failures, attempted,
                   scan, cardThrew, retryVars, markerVars, limiterVars, userVars, stateVars,
                   cardVars, pageVars, columnVars, detectVars>>

\* getAllCardsFromColumn throws: phase4_cards and runMigration throw.
FetchColumnFail == pc = "fetch" /\ Abort

\* A card loop that leaves phase 4 when the current column is done.
AfterCardOneColumn(m0) ==
    LET m == [m0 EXCEPT !.processed_cards = processedCount + 1]
    IN  /\ processedCount' = processedCount + 1
        /\ cur' = NoCard
        /\ IF inBatch < BatchLen
           THEN /\ inBatch' = inBatch + 1
                /\ pc' = "card"
                /\ migration' = m
                /\ UNCHANGED <<colIdx, batchStart, disk>>
           ELSE IF MoreBatches
           THEN /\ disk' = m
                /\ migration' = m
                /\ batchStart' = Plus(batchStart, opts.batchSize)
                /\ inBatch' = 1
                /\ pc' = "card"
                /\ UNCHANGED colIdx
           ELSE EndPhase4(m)

\* After the try/catch around migrateCard: processedCount++, then the next
\* card of the batch, or the batch's save and the next batch / column / phase.
AfterCard(m0) ==
    LET m == [m0 EXCEPT !.processed_cards = processedCount + 1]
    IN  /\ processedCount' = processedCount + 1
        /\ cur' = NoCard
        /\ IF inBatch < BatchLen
           THEN /\ inBatch' = inBatch + 1
                /\ pc' = "card"
                /\ migration' = m
                /\ UNCHANGED <<colIdx, batchStart, disk>>
           ELSE IF MoreBatches
           THEN /\ disk' = m
                /\ migration' = m
                /\ batchStart' = Plus(batchStart, opts.batchSize)
                /\ inBatch' = 1
                /\ pc' = "card"
                /\ UNCHANGED colIdx
           ELSE IF colIdx < Len(SourceColumns)
           THEN /\ disk' = m
                /\ migration' = m
                /\ colIdx' = colIdx + 1
                /\ pc' = "fetch"
                /\ UNCHANGED <<batchStart, inBatch>>
           ELSE EndPhase4(m)

\* A try body that does not count the returned card.
CardReturnUncounted(m) ==
    /\ AfterCard(m)
    /\ cardThrew' = FALSE

\* migrateCard returned: the try body counts the card successful.
CardReturn(m) ==
    /\ AfterCard([m EXCEPT !.successful_cards = @ + 1])
    /\ cardThrew' = FALSE

\* A catch block that counts the failure without recording a FailedItem.
CardThrowUnrecorded(m) ==
    /\ AfterCard([m EXCEPT !.failed_cards = @ + 1])
    /\ cardThrew' = TRUE

\* migrateCard threw: the catch counts the card failed and logs a FailedItem.
CardThrow(m) ==
    /\ AfterCard(addFailedItem([m EXCEPT !.failed_cards = @ + 1], CurrentCard))
    /\ cardThrew' = TRUE

\* mapAssignees: the mapped assignees (assignee_ids) and the unmapped ones.
MappedAssignees(id, m) ==
    SelectSeq(SourceCards[id].assignees, LAMBDA u : u \in m.user_mappings)
UnmappedAssignees(id, m) ==
    SelectSeq(SourceCards[id].assignees, LAMBDA u : u \notin m.user_mappings)

\* mapSteps: the payload of every step, given by the keys it carries, and
\* the assignees of steps that have no mapping. A step whose assignee is
\* mapped gets the key had_assignee.
mapSteps(basecampSteps, userMappings) ==
    [mapped |-> [k \in 1..Len(basecampSteps) |->
                    IF basecampSteps[k] # 0 /\ basecampSteps[k] \in userMappings
                    THEN {"title", "completed", "had_assignee"}
                    ELSE {"title", "completed"}],
     unmappedAssignees |-> SelectSeq(basecampSteps,
                                     LAMBDA u : u # 0 /\ u \notin userMappings)]

\* The data of the createStep call about to be made: metadata.steps[si].
StepPayload == mapSteps(SourceCards[cur.id].steps, migration.user_mappings).mapped[cur.si]

\* The closing loop of migrateCard: one warning per unmapped assignee.
RECURSIVE WarnUnmapped(_, _)
WarnUnmapped(m, n) == IF n = 0 THEN m ELSE WarnUnmapped(addWarning(m, "unmapped_assignee"), n - 1)

\* Where migrateCard goes next, skipping the calls the card does not need.
AfterComments(id) == "return"
AfterClose(id) ==
    IF opts.migrateComments /\ SourceCards[id].comments > 0 THEN "comments" ELSE AfterComments(id)
AfterSteps(id) == IF SourceCards[id].completed THEN "close" ELSE AfterClose(id)
AfterAssign(id) == IF Len(SourceCards[id].steps) > 0 THEN "step" ELSE AfterSteps(id)
AfterPlace(id, m) == IF Len(MappedAssignees(id, m)) > 0 THEN "assign" ELSE AfterAssign(id)
AfterCreate(id, m) ==
    IF m.column_mappings[colIdx].type \in {"not_now", "close"}
       \/ (m.column_mappings[colIdx].type = "triage_to_column"
           /\ m.column_mappings[colIdx].target # 0)
    THEN "place" ELSE AfterPlace(id, m)

\* Continue migrateCard at `label` with run state m and locals c.
Goto(label, m, c) ==
    IF label = "return"
    THEN CardReturn(WarnUnmapped(m, Len(UnmappedAssignees(c.id, m))))
    ELSE /\ pc' = label
         /\ migration' = m
         /\ cur' = c
         /\ cardThrew' = FALSE
         /\ UNCHANGED <<loopVars, disk>>

\* A batch whose cards are all started together (Promise.all over the
\* batch) instead of one after the other.
BeginCardTogether ==
    /\ pc = "card"
    /\ attempted' = attempted \o SubSeq(ColumnCards, batchStart + inBatch, batchStart + BatchLen)
    /\ IF migration.existing_cards[CurrentCard] # 0 /\ ~opts.updateExisting
       THEN CardReturn([migration EXCEPT !.skipped_cards = @ + 1])
       ELSE IF opts.dryRun
            THEN CardReturn(migration)
            ELSE /\ pc' = "create"
                 /\ cur' = [NoCard EXCEPT !.id = CurrentCard]
                 /\ cardThrew' = FALSE
                 /\ UNCHANGED <<migration, disk, loopVars>>
    /\ UNCHANGED <<mutations, runs, opts, board, columns, failures, scan, retryVars, markerVars, limiterVars, userVars, stateVars,
                   cardVars, pageVars, columnVars, detectVars>>

\* migrateCard is called for the current card: the skip and dry-run
\* returns, else mapCard and the createCard call is issued.
BeginCard ==
    /\ pc = "card"
    /\ attempted' = Append(attempted, CurrentCard)
    /\ IF migration.existing_cards[CurrentCard] # 0 /\ ~opts.updateExisting
       THEN CardReturn([migration EXCEPT !.skipped_cards = @ + 1])
       ELSE IF opts.dryRun
            THEN CardReturn(migration)
            ELSE /\ pc' = "create"
                 /\ cur' = [NoCard EXCEPT !.id = CurrentCard]
                 /\ cardThrew' = FALSE
                 /\ UNCHANGED <<migration, disk, loopVars>>
    /\ UNCHANGED <<mutations, runs, opts, board, columns, failures, scan, retryVars, markerVars, limiterVars, userVars, stateVars,
                   cardVars, pageVars, columnVars, detectVars>>

\* The card createCard's POST adds to the board: its description carries
\* the marker of the source id; its number is its position.
NewCard(id) == [marker |-> id, number |-> Len(board) + 1]

\* createCard returned the new card: it is stored in existing_cards.
CreateCard ==
    /\ pc = "create"
    /\ board' = Append(board, NewCard(cur.id))
    /\ LET m == [migration EXCEPT !.existing_cards[cur.id] = Len(board) + 1]
           c == [cur EXCEPT !.number = Len(board) + 1, !.ai = 1, !.si = 1, !.ci = 1]
       IN  Goto(AfterCreate(cur.id, m), m, c)
    /\ mutations' = mutations \cup {"createCard"}
    /\ UNCHANGED <<runs, opts, columns, failures, attempted, scan, retryVars, markerVars, limiterVars, userVars, stateVars,
                   cardVars, pageVars, columnVars, detectVars>>

\* createCard threw. Its POST either failed, or succeeded with the
\* follow-up getCard failing, in which case the card is on the board.
CreateCardFail(posted) ==
    /\ pc = "create"
    /\ MayFail
    /\ failures' = failures + 1
    /\ board' = IF posted THEN Append(board, NewCard(cur.id)) ELSE board
    /\ CardThrow(migration)
    /\ mutations' = mutations \cup {"createCard"}
    /\ UNCHANGED <<runs, opts, columns, attempted, scan, retryVars, markerVars, limiterVars, userVars, stateVars,
                   cardVars, pageVars, columnVars, detectVars>>

\* The call placeCardInColumn makes for the current column's action.
PlacementCall ==
    CASE migration.column_mappings[colIdx].type = "not_now" -> "notNowCard"
      [] migration.column_mappings[colIdx].type = "close"   -> "closeCard"
      [] OTHER                                              -> "triageCard"

\* placeCardInColumn's call (notNowCard / closeCard / triageCard) returned.
Place ==
    /\ pc = "place"
    /\ Goto(AfterPlace(cur.id, migration), migration, cur)
    /\ mutations' = mutations \cup {PlacementCall}
    /\ UNCHANGED <<runs, opts, board, columns, failures, attempted, scan,
                   retryVars, markerVars, limiterVars, userVars, stateVars,
                   cardVars, pageVars, columnVars, detectVars>>

\* placeCardInColumn's call threw: migrateCard throws.
PlaceFail ==
    /\ pc = "place"
    /\ MayFail
    /\ failures' = failures + 1
    /\ CardThrow(migration)
    /\ mutations' = mutations \cup {PlacementCall}
    /\ UNCHANGED <<runs, opts, board, columns, attempted, scan, retryVars, markerVars, limiterVars, userVars, stateVars,
                   cardVars, pageVars, columnVars, detectVars>>

\* assignUser for assignee_ids[ai] returned (ok) or threw (a warning).
Assign(ok) ==
    /\ pc = "assign"
    /\ ok \/ MayFail
    /\ failures' = IF ok THEN failures ELSE failures + 1
    /\ LET m == IF ok THEN migration ELSE addWarning(migration, "assign_failed")
           c == [cur EXCEPT !.ai = @ + 1]
       IN  IF cur.ai < Len(MappedAssignees(cur.id, migration))
           THEN Goto("assign", m, c)
           ELSE Goto(AfterAssign(cur.id), m, c)
    /\ mutations' = mutations \cup {"assignUser"}
    /\ UNCHANGED <<runs, opts, board, columns, attempted, scan, retryVars, markerVars, limiterVars, userVars, stateVars,
                   cardVars, pageVars, columnVars, detectVars>>

\* A createStep call without its own try/catch: its failure leaves migrateCard.
StepUncaught(ok) ==
    /\ pc = "step"
    /\ ok \/ MayFail
    /\ failures' = IF ok THEN failures ELSE failures + 1
    /\ IF ok
       THEN LET m == [migration EXCEPT !.steps_migrated = @ + 1]
                c == [cur EXCEPT !.si = @ + 1]
            IN  IF cur.si < Len(SourceCards[cur.id].steps)
                THEN Goto("step", m, c)
                ELSE Goto(AfterSteps(cur.id), m, c)
       ELSE CardThrow(migration)
    /\ mutations' = mutations \cup {"createStep"}
    /\ UNCHANGED <<runs, opts, board, columns, attempted, scan, retryVars, markerVars, limiterVars, userVars, stateVars,
                   cardVars, pageVars, columnVars, detectVars>>

\* createStep for steps[si] returned (ok) or threw (a warning).
Step(ok) ==
    /\ pc = "step"
    /\ ok \/ MayFail
    /\ failures' = IF ok THEN failures ELSE failures + 1
    /\ LET m == IF ok THEN [migration EXCEPT !.steps_migrated = @ + 1]
                ELSE addWarning(migration, "step_failed")
           c == [cur EXCEPT !.si = @ + 1]
       IN  IF cur.si < Len(SourceCards[cur.id].steps)
           THEN Goto("step", m, c)
           ELSE Goto(AfterSteps(cur.id), m, c)
    /\ mutations' = mutations \cup {"createStep"}
    /\ UNCHANGED <<runs, opts, board, columns, attempted, scan, retryVars, markerVars, limiterVars, userVars, stateVars,
                   cardVars, pageVars, columnVars, detectVars>>

\* closeCard for a completed source card returned.
Close ==
    /\ pc = "close"
    /\ Goto(AfterClose(cur.id), migration, cur)
    /\ mutations' = mutations \cup {"closeCard"}
    /\ UNCHANGED <<runs, opts, board, columns, failures, attempted, scan,
                   retryVars, markerVars, limiterVars, userVars, stateVars,
                   cardVars, pageVars, columnVars, detectVars>>

\* closeCard threw: migrateCard throws.
CloseFail ==
    /\ pc = "close"
    /\ MayFail
    /\ failures' = failures + 1
    /\ CardThrow(migration)
    /\ mutations' = mutations \cup {"closeCard"}
    /\ UNCHANGED <<runs, opts, board, columns, attempted, scan, retryVars, markerVars, limiterVars, userVars, stateVars,
                   cardVars, pageVars, columnVars, detectVars>>

\* migrateComments_forCard: getComments returned (ok) or threw (a warning).
FetchComments(ok) ==
    /\ pc = "comments"
    /\ ok \/ MayFail
    /\ failures' = IF ok THEN failures ELSE failures + 1
    /\ IF ok
       THEN Goto("comment", migration, cur)
       ELSE Goto(AfterComments(cur.id), addWarning(migration, "fetch_comments_failed"), cur)
    /\ UNCHANGED <<mutations, runs, opts, board, columns, attempted, scan, retryVars, markerVars, limiterVars, userVars, stateVars,
                   cardVars, pageVars, columnVars, detectVars>>

\* createComment for comments[ci] returned (ok) or threw (a warning).
Comment(ok) ==
    /\ pc = "comment"
    /\ ok \/ MayFail
    /\ failures' = IF ok THEN failures ELSE failures + 1
    /\ LET m == IF ok THEN [migration EXCEPT !.comments_migrated = @ + 1]
                ELSE addWarning(migration, "comment_failed")
           c == [cur EXCEPT !.ci = @ + 1]
       IN  IF cur.ci < SourceCards[cur.id].comments
           THEN Goto("comment", m, c)
           ELSE Goto(AfterComments(cur.id), m, c)
    /\ mutations' = mutations \cup {"createComment"}
    /\ UNCHANGED <<runs, opts, board, columns, attempted, scan, retryVars, markerVars, limiterVars, userVars, stateVars,
                   cardVars, pageVars, columnVars, detectVars>>

\* A finalization that also treats recorded warnings as failures.
FinalizeWarn ==
    /\ pc = "finalize"
    /\ LET hasFailures == migration.failed_cards > 0 \/ migration.warnings # <<>>
           status == IF hasFailures THEN "partial" ELSE "completed"
           m == completeMigration(migration, status)
       IN  /\ migration' = m
           /\ disk' = m
    /\ pc' = "done"
    /\ cardThrew' = FALSE
    /\ UNCHANGED <<mutations, runs, opts, board, columns, loopVars, cur, failures, attempted,
                   scan, retryVars, markerVars, limiterVars, userVars, stateVars,
                   cardVars, pageVars, columnVars, detectVars>>

\* Phase 5: phase5_finalize and the final saveMigrationState.
Finalize ==
    /\ pc = "finalize"
    /\ LET hasFailures == migration.failed_cards > 0
           status == IF hasFailures THEN "partial" ELSE "completed"
           m == completeMigration(migration, status)
       IN  /\ migration' = m
           /\ disk' = m
    /\ pc' = "done"
    /\ cardThrew' = FALSE
    /\ UNCHANGED <<mutations, runs, opts, board, columns, loopVars, cur, failures, attempted,
                   scan, retryVars, markerVars, limiterVars, userVars, stateVars,
                   cardVars, pageVars, columnVars, detectVars>>


(***************************************************************************)
(* RateLimiter                                                             *)
(***************************************************************************)
\* Bounds of the limiter model.
MaxRate == 2
MaxCallers == 2
MaxGrants == 4
MaxTime == 1500

\* requestsPerSecond values, callers of acquire, clock advances (ms).
Rates == 1..MaxRate
Callers == 1..MaxCallers
TimeSteps == {100, 400}

\* One whole token, in the unit of rl_tokens.
Token == 1000

\* refill(): tokens after adding timePassed * refillRate, capped at maxTokens.
\* (now - lastRefill) / 1000 s * rate tokens/s = (now - lastRefill) * rate
\* thousandths of a token.
Refilled == Min(rl_rate * Token, rl_tokens + (rl_now - rl_lastRefill) * rl_rate)

\* Math.ceil((1 - tokens) / refillRate * 1000): the ms to sleep for.
WaitTime(tokens) == ((Token - tokens) + rl_rate - 1) \div rl_rate

Off == [pc |-> "off", wakeAt |-> 0]
Ready == [pc |-> "idle", wakeAt |-> 0]

LimiterIdle ==
    /\ rl_rate = 1
    /\ rl_now = 0
    /\ rl_tokens = Token
    /\ rl_lastRefill = 0
    /\ rl_callers = [c \in Callers |-> Off]
    /\ rl_granted = <<>>

\* One pass of acquire's loop for caller c after a refill: sleep while less
\* than one token is there, else consume one token and return.
LoopPass(c) ==
    /\ rl_lastRefill' = rl_now
    /\ IF Refilled < Token
       THEN /\ rl_tokens' = Refilled
            /\ rl_callers' = [rl_callers EXCEPT
                                ![c] = [pc |-> "sleeping", wakeAt |-> rl_now + WaitTime(Refilled)]]
            /\ UNCHANGED rl_granted
       ELSE /\ rl_tokens' = Refilled - Token
            /\ rl_callers' = [rl_callers EXCEPT ![c] = Ready]
            /\ rl_granted' = Append(rl_granted, rl_now)

\* The started acquire calls: completed ones and sleeping ones.
Started == Len(rl_granted) + Cardinality({c \in Callers : rl_callers[c].pc = "sleeping"})

\* Caller c calls acquire(): refill(), then the loop.
Acquire(c) ==
    /\ rl_callers[c].pc = "idle"
    /\ Started < MaxGrants
    /\ LoopPass(c)
    /\ UNCHANGED <<rl_rate, rl_now, retryVars, markerVars, runVars, userVars, stateVars,
                   cardVars, pageVars, columnVars, detectVars>>

\* A resumption that consumes a token without looking at the count again.
ResumeUnchecked(c) ==
    /\ rl_callers[c].pc = "sleeping"
    /\ rl_now >= rl_callers[c].wakeAt
    /\ rl_lastRefill' = rl_now
    /\ rl_tokens' = Refilled - Token
    /\ rl_callers' = [rl_callers EXCEPT ![c] = Ready]
    /\ rl_granted' = Append(rl_granted, rl_now)
    /\ UNCHANGED <<rl_rate, rl_now, retryVars, markerVars, runVars, userVars, stateVars,
                   cardVars, pageVars, columnVars, detectVars>>

\* Caller c's sleep is over: refill(), then the loop condition again.
Resume(c) ==
    /\ rl_callers[c].pc = "sleeping"
    /\ rl_now >= rl_callers[c].wakeAt
    /\ LoopPass(c)
    /\ UNCHANGED <<rl_rate, rl_now, retryVars, markerVars, runVars, userVars, stateVars,
                   cardVars, pageVars, columnVars, detectVars>>

\* Wall-clock time passes.
Tick(d) ==
    /\ rl_now + d <= MaxTime
    /\ rl_now' = rl_now + d
    /\ UNCHANGED <<rl_rate, rl_tokens, rl_lastRefill, rl_callers, rl_granted,
                   retryVars, markerVars, runVars, userVars, stateVars,
                   cardVars, pageVars, columnVars, detectVars>>

(***************************************************************************)
(* mapUsers: the user mapper, as called by the map-users command and by    *)
(* phase 3 of a migration run                                              *)
(***************************************************************************)
MaxUsers == 2
MaxCommands == 2

SourceUsers == 1..MaxUsers

\* Email addresses as the APIs may deliver them; <<>> stands for a missing
\* or empty address.
Emails == {<<>>, <<" ", "A">>, <<"c">>}

\* fizzyUsers: the email of each destination user, by id.
FizzyUsers == << <<"A", " ">>, <<>> >>

\* A findUserByEmail that compares the addresses as they are.
findUserByEmailExact(email, fizzyUsers) ==
    IF email = <<>> THEN 0
    ELSE LET hits == {f \in 1..Len(fizzyUsers) : fizzyUsers[f] # <<>> /\ fizzyUsers[f] = email}
         IN  IF hits = {} THEN 0 ELSE CHOOSE f \in hits : \A g \in hits : f <= g

\* findUserByEmail: the first destination user whose address, lower-cased
\* and trimmed, equals the lower-cased and trimmed email; 0 for null.
findUserByEmail(email, fizzyUsers) ==
    IF email = <<>> THEN 0
    ELSE LET normalizedEmail == Trim(ToLowerCase(email))
             hits == {f \in 1..Len(fizzyUsers) :
                         /\ fizzyUsers[f] # <<>>
                         /\ Trim(ToLowerCase(fizzyUsers[f])) = normalizedEmail}
         IN  IF hits = {} THEN 0 ELSE CHOOSE f \in hits : \A g \in hits : f <= g

\* An object of mappings without entries.
NoMappings == [u \in SourceUsers |-> 0]

UsersIdle ==
    /\ um_bc = [u \in SourceUsers |-> <<>>]
    /\ um_config = NoMappings
    /\ um_stored = NoMappings
    /\ um_pc = "off"
    /\ um_cmd = "none"
    /\ um_interactive = FALSE
    /\ um_mappings = NoMappings
    /\ um_idx = 0
    /\ um_prompts = {}
    /\ um_skipped = 0
    /\ um_cmds = 0

\* A command calls mapUsers: map-users with the mappings of the config
\* file, interactively; phase 3 of a migration run with the user_mappings
\* of its new RunState, interactively unless the run is a dry run.
StartMapUsers(cmd, dryRun) ==
    /\ um_pc = "idle"
    /\ um_cmds < MaxCommands
    /\ cmd = "map-users" => ~dryRun
    /\ um_cmds' = um_cmds + 1
    /\ um_cmd' = cmd
    /\ um_interactive' = (cmd = "map-users" \/ ~dryRun)
    /\ um_mappings' = IF cmd = "map-users" THEN um_config ELSE NoMappings
    /\ um_idx' = 1
    /\ um_prompts' = {}
    /\ um_skipped' = 0
    /\ um_pc' = "loop"
    /\ UNCHANGED <<um_bc, um_config, um_stored, retryVars, markerVars, limiterVars, runVars,
                   stateVars,
                   cardVars, pageVars, columnVars, detectVars>>

\* One pass of mapUsers' loop for basecampUsers[um_idx]; confirm and choice
\* are the operator's answers to the prompts, if they are shown.
MapUser(confirm, choice) ==
    /\ um_pc = "loop"
    /\ um_idx <= MaxUsers
    /\ LET u == um_idx
           autoMatch == findUserByEmail(um_bc[u], FizzyUsers)
           asked == IF autoMatch # 0 THEN {[user |-> u, kind |-> "confirm"]} ELSE {}
       IN  IF um_mappings[u] # 0
           THEN UNCHANGED <<um_mappings, um_prompts, um_skipped>>
           ELSE IF autoMatch # 0 /\ (~um_interactive \/ confirm)
           THEN /\ um_mappings' = [um_mappings EXCEPT ![u] = autoMatch]
                /\ um_prompts' = IF um_interactive THEN um_prompts \cup asked ELSE um_prompts
                /\ UNCHANGED um_skipped
           ELSE IF ~um_interactive
           THEN /\ um_skipped' = um_skipped + 1
                /\ UNCHANGED <<um_mappings, um_prompts>>
           ELSE /\ um_prompts' = um_prompts \cup asked \cup {[user |-> u, kind |-> "select"]}
                /\ IF choice # 0
                   THEN /\ um_mappings' = [um_mappings EXCEPT ![u] = choice]
                        /\ UNCHANGED um_skipped
                   ELSE /\ um_skipped' = um_skipped + 1
                        /\ UNCHANGED um_mappings
    /\ um_idx' = um_idx + 1
    /\ UNCHANGED <<um_bc, um_config, um_stored, um_pc, um_cmd, um_interactive, um_cmds,
                   retryVars, markerVars, limiterVars, runVars, stateVars,
                   cardVars, pageVars, columnVars, detectVars>>

\* mapUsers returned: map-users saves the mappings to the config file,
\* phase 3 puts them into the RunState, which is saved.
FinishMapUsers ==
    /\ um_pc = "loop"
    /\ um_idx > MaxUsers
    /\ um_config' = IF um_cmd = "map-users" THEN um_mappings ELSE um_config
    /\ um_stored' = [u \in SourceUsers |->
                        IF um_mappings[u] # 0 THEN um_mappings[u] ELSE um_stored[u]]
    /\ um_pc' = "idle"
    /\ UNCHANGED <<um_bc, um_cmd, um_interactive, um_mappings, um_idx, um_prompts, um_skipped,
                   um_cmds, retryVars, markerVars, limiterVars, runVars, stateVars,
                   cardVars, pageVars, columnVars, detectVars>>

(***************************************************************************)
(* The RunState documents: migrate processes that create and save their    *)
(* RunState, and the resume command                                        *)
(***************************************************************************)
MaxProcs == 2
MaxClock == 1
MaxWork == 1

Procs == 1..MaxProcs
\* migration ids: mig_<t> is given by t; NoId stands for none.
Times == 0..MaxClock
NoId == 0 - 1

\* A RunState as far as resume reads it; writer names the process whose
\* saveMigrationState wrote the document (0 where there is no document).
NoDoc == [writer |-> 0, status |-> "none", processed |-> 0, failed |-> 0]

NoProc == [pc |-> "idle", id |-> NoId, m |-> NoDoc]
NoResume == [pc |-> "idle", id |-> NoId, m |-> NoDoc, outcome |-> "none"]

StateIdle ==
    /\ sd_now = 0
    /\ sd_docs = [t \in Times |-> NoDoc]
    /\ sd_procs = [p \in Procs |-> NoProc]
    /\ sd_resume = [NoResume EXCEPT !.pc = "off"]
    /\ sd_dest = 0

\* Time passes.
TickClock ==
    /\ sd_now < MaxClock
    /\ sd_now' = sd_now + 1
    /\ UNCHANGED <<sd_docs, sd_procs, sd_resume, sd_dest, retryVars, markerVars, limiterVars,
                   runVars, userVars,
                   cardVars, pageVars, columnVars, detectVars>>

\* saveMigrationState of process p's RunState m: writeFile to
\* <migration_id>.json, whatever the directory holds under that name.
saveMigrationState(p, id, m) == [sd_docs EXCEPT ![id] = [m EXCEPT !.writer = p]]

\* Process p starts a run: createMigrationState takes the id
\* mig_<Date.now()>, and the new RunState is saved.
CreateState(p) ==
    /\ sd_procs[p].pc = "idle"
    /\ LET m == [writer |-> p, status |-> "in_progress", processed |-> 0, failed |-> 0]
       IN  /\ sd_procs' = [sd_procs EXCEPT ![p] = [pc |-> "running", id |-> sd_now, m |-> m]]
           /\ sd_docs' = saveMigrationState(p, sd_now, m)
    /\ UNCHANGED <<sd_now, sd_resume, sd_dest, retryVars, markerVars, limiterVars, runVars,
                   userVars,
                   cardVars, pageVars, columnVars, detectVars>>

\* Process p migrates a group of one record: createCard is called, the
\* record succeeds or fails, and the RunState is saved.
MigrateRecord(p, ok) ==
    /\ sd_procs[p].pc = "running"
    /\ sd_procs[p].m.processed < MaxWork
    /\ LET m == [sd_procs[p].m EXCEPT !.processed = @ + 1,
                                      !.failed = IF ok THEN @ ELSE @ + 1]
       IN  /\ sd_procs' = [sd_procs EXCEPT ![p].m = m]
           /\ sd_docs' = saveMigrationState(p, sd_procs[p].id, m)
    /\ sd_dest' = sd_dest + 1
    /\ UNCHANGED <<sd_now, sd_resume, retryVars, markerVars, limiterVars, runVars, userVars,
                   cardVars, pageVars, columnVars, detectVars>>

\* phase5_finalize in process p, and the last save.
CompleteState(p) ==
    /\ sd_procs[p].pc = "running"
    /\ sd_procs[p].m.processed = MaxWork
    /\ LET m == [sd_procs[p].m EXCEPT !.status = IF sd_procs[p].m.failed > 0
                                                 THEN "partial" ELSE "completed"]
       IN  /\ sd_procs' = [sd_procs EXCEPT ![p].m = m, ![p].pc = "done"]
           /\ sd_docs' = saveMigrationState(p, sd_procs[p].id, m)
    /\ UNCHANGED <<sd_now, sd_resume, sd_dest, retryVars, markerVars, limiterVars, runVars,
                   userVars,
                   cardVars, pageVars, columnVars, detectVars>>

\* resumeCommand(migrationId) up to its prompt: loadMigrationState reads
\* the document (a missing file ends the command), the summary is shown,
\* a completed run and a run without failed items end the command, else
\* the operator is asked whether to retry.
ResumeLoad(id) ==
    /\ sd_resume.pc = "idle"
    /\ sd_resume' =
          IF sd_docs[id] = NoDoc
          THEN [NoResume EXCEPT !.pc = "exit", !.id = id, !.outcome = "not_found"]
          ELSE IF sd_docs[id].status = "completed"
          THEN [pc |-> "exit", id |-> id, m |-> sd_docs[id], outcome |-> "completed"]
          ELSE IF sd_docs[id].failed = 0
          THEN [pc |-> "exit", id |-> id, m |-> sd_docs[id], outcome |-> "no_failed_items"]
          ELSE [pc |-> "asked", id |-> id, m |-> sd_docs[id], outcome |-> "none"]
    /\ UNCHANGED <<sd_now, sd_docs, sd_procs, sd_dest, retryVars, markerVars, limiterVars,
                   runVars, userVars,
                   cardVars, pageVars, columnVars, detectVars>>

\* A resume that retries the failed items once the operator confirms.
ResumeAnswerRetry(confirm) ==
    /\ sd_resume.pc = "asked"
    /\ sd_resume' = [sd_resume EXCEPT !.pc = "exit",
                        !.outcome = IF confirm THEN "not_implemented" ELSE "cancelled"]
    /\ sd_dest' = IF confirm THEN sd_dest + sd_resume.m.failed ELSE sd_dest
    /\ sd_docs' = IF confirm
                  THEN [sd_docs EXCEPT ![sd_resume.id].failed = 0]
                  ELSE sd_docs
    /\ UNCHANGED <<sd_now, sd_procs, retryVars, markerVars, limiterVars, runVars, userVars,
                   cardVars, pageVars, columnVars, detectVars>>

\* The operator answers the prompt: 'Resume cancelled', or the note that
\* resume is not implemented and the migrate command line to use instead.
ResumeAnswer(confirm) ==
    /\ sd_resume.pc = "asked"
    /\ sd_resume' = [sd_resume EXCEPT !.pc = "exit",
                        !.outcome = IF confirm THEN "not_implemented" ELSE "cancelled"]
    /\ UNCHANGED <<sd_now, sd_docs, sd_dest, sd_procs, retryVars, markerVars, limiterVars,
                   runVars, userVars,
                   cardVars, pageVars, columnVars, detectVars>>

\* The command has exited; it may be run again.
ResumeExit ==
    /\ sd_resume.pc = "exit"
    /\ sd_resume' = NoResume
    /\ UNCHANGED <<sd_now, sd_docs, sd_procs, sd_dest, retryVars, markerVars, limiterVars,
                   runVars, userVars,
                   cardVars, pageVars, columnVars, detectVars>>

(***************************************************************************)
(* migrateCard on one record: the destination calls and their order        *)
(***************************************************************************)
\* Bound on the numbers of mapped assignees, steps and comments of a record.
MaxItems == 2

\* The column actions mapColumns can leave in column_mappings; a Regular
\* column's target is 0 when createColumn returned an object without id.
ColumnActions ==
    {getColumnAction(TRIAGE, 0), getColumnAction(NOT_NOW, 0), getColumnAction(DONE, 0),
     getColumnAction(REGULAR, 1), getColumnAction(REGULAR, 0)}

\* mapCard's metadata, as far as migrateCard reads it: column_action, the
\* lengths of assignee_ids and steps, completed, comments_count.
CardInputs ==
    [column_action : ColumnActions, assignee_ids : 0..MaxItems, steps : 0..MaxItems,
     completed : BOOLEAN, comments_count : 0..MaxItems, migrateComments : BOOLEAN]

Call(op, arg) == [op |-> op, arg |-> arg]

\* The blocks of migrateCard after createCard, in program order.
CardStagesCloseFirst == <<"place", "close", "assign", "step", "comments">>

CardStages == <<"place", "assign", "step", "close", "comments">>

\* Whether a block makes a call: placeCardInColumn's switch, the two for
\* loops, the two if statements.
StageHasWork(stage, in) ==
    CASE stage = "place"    -> \/ in.column_action.type \in {"not_now", "close"}
                               \/ /\ in.column_action.type = "triage_to_column"
                                  /\ in.column_action.target # 0
      [] stage = "assign"   -> in.assignee_ids > 0
      [] stage = "step"     -> in.steps > 0
      [] stage = "close"    -> in.completed
      [] stage = "comments" -> in.migrateComments /\ in.comments_count > 0

\* The first block from position k on that makes a call; "returned" if none.
RECURSIVE StageFrom(_, _)
StageFrom(k, in) ==
    IF k > Len(CardStages) THEN "returned"
    ELSE IF StageHasWork(CardStages[k], in) THEN CardStages[k]
    ELSE StageFrom(k + 1, in)

StageAfter(stage, in) ==
    StageFrom((CHOOSE k \in 1..Len(CardStages) : CardStages[k] = stage) + 1, in)

\* placeCardInColumn's call for a column action.
placeCardInColumn(columnAction) ==
    CASE columnAction.type = "not_now" -> Call("notNowCard", 0)
      [] columnAction.type = "close"   -> Call("closeCard", 0)
      [] OTHER                         -> Call("triageCard", columnAction.target)

CardIdle ==
    /\ mc_pc = "off"
    /\ mc_in = [column_action |-> NoAction, assignee_ids |-> 0, steps |-> 0,
                completed |-> FALSE, comments_count |-> 0, migrateComments |-> FALSE]
    /\ mc_i = 0
    /\ mc_calls = <<>>
    /\ mc_warnings = <<>>
    /\ mc_thrown = ""

\* A block of migrateCard has ended: go to the next one that makes a call.
CardGoto(stage) ==
    /\ mc_pc' = stage
    /\ mc_i' = 1

\* createCard returned (ok) or threw: migrateCard throws.
CardCreate(ok) ==
    /\ mc_pc = "create"
    /\ mc_calls' = Append(mc_calls, Call("createCard", 0))
    /\ IF ok THEN CardGoto(StageFrom(1, mc_in)) /\ UNCHANGED mc_thrown
             ELSE CardGoto("threw") /\ mc_thrown' = "createCard"
    /\ UNCHANGED <<mc_in, mc_warnings, retryVars, markerVars, limiterVars, runVars,
                   userVars, stateVars, pageVars, columnVars,
                   detectVars>>

\* placeCardInColumn's call returned (ok) or threw: migrateCard throws.
CardPlace(ok) ==
    /\ mc_pc = "place"
    /\ mc_calls' = Append(mc_calls, placeCardInColumn(mc_in.column_action))
    /\ IF ok THEN CardGoto(StageAfter("place", mc_in)) /\ UNCHANGED mc_thrown
             ELSE CardGoto("threw") /\ mc_thrown' = "place"
    /\ UNCHANGED <<mc_in, mc_warnings, retryVars, markerVars, limiterVars, runVars,
                   userVars, stateVars, pageVars, columnVars,
                   detectVars>>

\* assignUser for assignee_ids[mc_i] returned (ok) or threw (a warning).
CardAssign(ok) ==
    /\ mc_pc = "assign"
    /\ mc_calls' = Append(mc_calls, Call("assignUser", mc_i))
    /\ mc_warnings' = IF ok THEN mc_warnings ELSE Append(mc_warnings, "assign")
    /\ IF mc_i < mc_in.assignee_ids
       THEN mc_i' = mc_i + 1 /\ UNCHANGED mc_pc
       ELSE CardGoto(StageAfter("assign", mc_in))
    /\ UNCHANGED <<mc_in, mc_thrown, retryVars, markerVars, limiterVars, runVars,
                   userVars, stateVars, pageVars, columnVars,
                   detectVars>>

\* createStep for steps[mc_i] returned (ok) or threw (a warning).
CardStep(ok) ==
    /\ mc_pc = "step"
    /\ mc_calls' = Append(mc_calls, Call("createStep", mc_i))
    /\ mc_warnings' = IF ok THEN mc_warnings ELSE Append(mc_warnings, "step")
    /\ IF mc_i < mc_in.steps
       THEN mc_i' = mc_i + 1 /\ UNCHANGED mc_pc
       ELSE CardGoto(StageAfter("step", mc_in))
    /\ UNCHANGED <<mc_in, mc_thrown, retryVars, markerVars, limiterVars, runVars,
                   userVars, stateVars, pageVars, columnVars,
                   detectVars>>

\* The closeCard for a completed record returned (ok) or threw.
CardClose(ok) ==
    /\ mc_pc = "close"
    /\ mc_calls' = Append(mc_calls, Call("closeCard", 0))
    /\ IF ok THEN CardGoto(StageAfter("close", mc_in)) /\ UNCHANGED mc_thrown
             ELSE CardGoto("threw") /\ mc_thrown' = "close"
    /\ UNCHANGED <<mc_in, mc_warnings, retryVars, markerVars, limiterVars, runVars,
                   userVars, stateVars, pageVars, columnVars,
                   detectVars>>

\* migrateComments_forCard: getComments returned the record's comments (ok)
\* or threw (a warning, no comment is created).
CardGetComments(ok) ==
    /\ mc_pc = "comments"
    /\ mc_warnings' = IF ok THEN mc_warnings ELSE Append(mc_warnings, "fetch")
    /\ CardGoto(IF ok THEN "comment" ELSE "returned")
    /\ UNCHANGED <<mc_in, mc_calls, mc_thrown, retryVars, markerVars, limiterVars, runVars,
                   userVars, stateVars, pageVars, columnVars,
                   detectVars>>

\* createComment for comment mc_i returned (ok) or threw (a warning).
CardComment(ok) ==
    /\ mc_pc = "comment"
    /\ mc_calls' = Append(mc_calls, Call("createComment", mc_i))
    /\ mc_warnings' = IF ok THEN mc_warnings ELSE Append(mc_warnings, "comment")
    /\ IF mc_i < mc_in.comments_count
       THEN mc_i' = mc_i + 1 /\ UNCHANGED mc_pc
       ELSE CardGoto("returned")
    /\ UNCHANGED <<mc_in, mc_thrown, retryVars, markerVars, limiterVars, runVars,
                   userVars, stateVars, pageVars, columnVars,
                   detectVars>>

NextCard ==
    \/ \E ok \in BOOLEAN : CardCreate(ok)
    \/ \E ok \in BOOLEAN : CardPlace(ok)
    \/ \E ok \in BOOLEAN : CardAssign(ok)
    \/ \E ok \in BOOLEAN : CardStep(ok)
    \/ \E ok \in BOOLEAN : CardClose(ok)
    \/ \E ok \in BOOLEAN : CardGetComments(ok)
    \/ \E ok \in BOOLEAN : CardComment(ok)

(***************************************************************************)
(* BasecampClient.getAllCardsFromColumn / paginateCards / getCards         *)
(***************************************************************************)
\* Bounds: pages of a column, cards per full page, invocations.
MaxPages == 3
PerPage == 2
MaxInvocations == 2

\* A column of n pages at the source, the last one holding `last` cards:
\* the cards are numbered in order, and every page but the last carries a
\* Link header with rel="next"; pages after the first carry rel="prev".
ServerPages(n, last) ==
    [k \in 1..n |->
        [data |-> [j \in 1..(IF k < n THEN PerPage ELSE last) |-> (k - 1) * PerPage + j],
         link |-> (IF k > 1 THEN <<"prev">> ELSE <<>>) \o (IF k < n THEN <<"next">> ELSE <<>>)]]

\* The response to cards.json?page=k; a page past the end is an empty list.
ServerResponse(k) ==
    IF k \in 1..Len(pg_server) THEN pg_server[k] ELSE [data |-> <<>>, link |-> <<>>]

\* An _extractNextPage that takes any Link header for a next link.
extractNextPageAny(linkHeader) == linkHeader # <<>>

\* _extractNextPage: whether the Link header has a rel="next" (else null).
extractNextPage(linkHeader) ==
    IF linkHeader = <<>> THEN FALSE
    ELSE \E i \in 1..Len(linkHeader) : linkHeader[i] = "next"

\* getCards(projectId, columnId, {page})
getCardsPage(page) ==
    [data |-> ServerResponse(page).data, nextPage |-> extractNextPage(ServerResponse(page).link)]

PagesIdle ==
    /\ pg_pc = "off"
    /\ pg_server = <<>>
    /\ pg_page = 0
    /\ pg_allCards = <<>>
    /\ pg_requests = <<>>
    /\ pg_calls = 0
    /\ pg_result = <<>>

\* getAllCardsFromColumn is called: allCards = [], and paginateCards starts
\* with page = 1.
getAllCardsFromColumn ==
    /\ pg_pc \in {"idle", "returned", "thrown"}
    /\ pg_calls < MaxInvocations
    /\ pg_calls' = pg_calls + 1
    /\ pg_pc' = "fetch"
    /\ pg_page' = 1
    /\ pg_allCards' = <<>>
    /\ pg_requests' = <<>>
    /\ UNCHANGED <<pg_server, pg_result, retryVars, markerVars, limiterVars, runVars,
                   userVars, stateVars, cardVars, columnVars,
                   detectVars>>

\* One turn of paginateCards' while loop with the for-await body: getCards
\* for the current page returns (ok) and its data is pushed, or throws and
\* getAllCardsFromColumn throws.
paginateCards(ok) ==
    /\ pg_pc = "fetch"
    /\ pg_requests' = Append(pg_requests, pg_page)
    /\ IF ok
       THEN LET result == getCardsPage(pg_page)
            IN  /\ pg_allCards' = pg_allCards \o result.data
                /\ pg_page' = pg_page + 1
                /\ pg_pc' = IF result.nextPage THEN "fetch" ELSE "returned"
                /\ pg_result' = IF result.nextPage THEN pg_result ELSE pg_allCards'
       ELSE /\ pg_pc' = "thrown"
            /\ UNCHANGED <<pg_allCards, pg_page, pg_result>>
    /\ UNCHANGED <<pg_server, pg_calls, retryVars, markerVars, limiterVars, runVars,
                   userVars, stateVars, cardVars, columnVars,
                   detectVars>>

NextPages ==
    \/ getAllCardsFromColumn
    \/ \E ok \in BOOLEAN : paginateCards(ok)

(***************************************************************************)
(* phase2_columns / mapColumns over varied columns                         *)
(***************************************************************************)
\* Bound on the number of source columns.
MaxColumns == 2

\* Source columns: tagged Regular or Done, or without tag.
ColumnInputs ==
    [type : {"", REGULAR, DONE},
     title : {<<"T", "o", " ", "d", "o">>, <<"Q", "A">>, <<"D", "o", "n", "e">>}]

\* The titles of the columns the destination board may hold before the run.
FizzyColumnLists ==
    {<<>>,
     <<<<" ", "T", "O", " ", "D", "O", " ">>>>,
     <<<<"q", "a">>, <<"t", "o", " ", "d", "o">>>>,
     <<<<"D", "o", "i", "n", "g">>>>}

NoResult == [mappings |-> <<>>, cols |-> <<>>, created |-> 0, thrown |-> FALSE]

ColumnsIdle ==
    /\ cm_pc = "off"
    /\ cm_bc = <<>>
    /\ cm_fizzy = <<>>
    /\ cm_dryRun = FALSE
    /\ cm_result = NoResult
    /\ cm_columns_created = 0

\* phase2_columns: mapColumns over the columns; columns_created is set
\* from its result, unless a createColumn threw, which mapColumns rethrows.
phase2_columns(withId, throwAt) ==
    /\ cm_pc = "columns"
    /\ LET r == mapColumns(cm_bc, 1, cm_fizzy, cm_dryRun, withId, throwAt,
                    [mappings |-> [k \in 1..Len(cm_bc) |-> NoAction], cols |-> cm_fizzy,
                     created |-> 0, thrown |-> FALSE])
       IN  /\ throwAt # 0 => r.thrown
           /\ cm_result' = r
           /\ cm_pc' = IF r.thrown THEN "thrown" ELSE "done"
           /\ cm_columns_created' = IF r.thrown THEN cm_columns_created ELSE r.created
    /\ UNCHANGED <<cm_bc, cm_fizzy, cm_dryRun, retryVars, markerVars, limiterVars, runVars,
                   userVars, stateVars, cardVars, pageVars, detectVars>>

(***************************************************************************)
(* detectColumnType                                                        *)
(***************************************************************************)
ColumnTypeTags == {"", TRIAGE, NOT_NOW, DONE, REGULAR}

DetectTitles ==
    {<<"T", "r", "i", "a", "g", "e">>,
     <<"M", "A", "Y", "B", "E", " ", "l", "a", "t", "e", "r">>,
     <<"N", "o", "t", " ", "N", "o", "w">>,
     <<"L", "a", "t", "e", "r", ",", " ", "d", "o", "n", "e">>,
     <<"U", "n", "d", "o", "n", "e">>,
     <<"C", "o", "m", "p", "l", "e", "t", "e", "d">>,
     <<"T", "o", " ", "d", "o">>,
     <<"Q", "A">>,
     <<>>,
     <<"L", "a", "t", "e", "r">>,
     <<"M", "a", "y", "b", "e">>}

DetectIdle ==
    /\ dt_column = NoColumn
    /\ dt_type = "off"

\* detectColumnType is applied to the column.
DetectStep ==
    /\ dt_type = ""
    /\ dt_type' = detectColumnType(dt_column)
    /\ UNCHANGED <<dt_column, retryVars, markerVars, limiterVars, runVars, userVars,
                   stateVars, cardVars, pageVars, columnVars>>

RetryInit ==
    /\ rq_pc = "idle"
    /\ rq_client = "fizzy"
    /\ rq_attempt = 0
    /\ rq_calls = 0
    /\ rq_sends = 0
    /\ rq_refreshes = 0
    /\ rq_log = <<>>
    /\ rq_http = <<>>
    /\ rq_slept = <<>>
    /\ rq_thrown = NoError

MarkerIdle ==
    /\ mk_pc = "off"
    /\ mk_card = [id |-> 0, title |-> <<>>, content |-> <<>>]
    /\ mk_out = [title |-> <<>>, description |-> <<>>]
    /\ mk_found = <<>>

InitRetry == RetryInit /\ CardIdle /\ PagesIdle /\ ColumnsIdle /\ DetectIdle /\ MarkerIdle /\ LimiterIdle /\ RunIdle /\ UsersIdle /\ StateIdle

NextRetry ==
    \/ \E client \in {"fizzy", "basecamp"} : Request(client)
    \/ \E http \in HttpOutcomes : Respond(http)
    \/ RefreshOk
    \/ RefreshFail
    \/ Wake

SpecRetry == InitRetry /\ [][NextRetry]_vars

\* The response interceptor on a further 401 once rq_refreshes stands at
\* MaxRefreshes: it refreshes and re-sends as before; from here on the
\* model's counters of refreshes and sends stand still.
RespondUnauthorizedAgain ==
    /\ rq_pc = "inflight"
    /\ rq_client = "basecamp"
    /\ rq_refreshes = MaxRefreshes
    /\ rq_pc' = "refreshing"
    /\ UNCHANGED <<rq_client, rq_attempt, rq_calls, rq_sends, rq_refreshes, rq_log, rq_http,
                   rq_slept, rq_thrown, markerVars, limiterVars, runVars, userVars,
                   stateVars, cardVars, pageVars, columnVars, detectVars>>

RefreshOkAgain ==
    /\ rq_pc = "refreshing"
    /\ rq_refreshes = MaxRefreshes
    /\ rq_pc' = "inflight"
    /\ UNCHANGED <<rq_client, rq_attempt, rq_calls, rq_sends, rq_refreshes, rq_log, rq_http,
                   rq_slept, rq_thrown, markerVars, limiterVars, runVars, userVars,
                   stateVars, cardVars, pageVars, columnVars, detectVars>>

NextRetryFair ==
    \/ \E client \in {"fizzy", "basecamp"} : Request(client)
    \/ \E http \in HttpOutcomes : Respond(http)
    \/ rq_refreshes < MaxRefreshes /\ RefreshOk
    \/ RefreshFail
    \/ Wake
    \/ RespondUnauthorizedAgain
    \/ RefreshOkAgain

\* One remote call of a run, where every HTTP request and every token
\* refresh completes and every sleep ends.
SpecRetryFair == InitRetry /\ [][NextRetryFair]_vars /\ WF_vars(NextRetryFair)

\* C40: a run ends: every remote call it awaits, once its request is out,
\* ends by returning or by throwing, whatever the answers are.
C40_RemoteCallEnds == (rq_pc = "inflight") ~> (rq_pc \in {"returned", "thrown"})

InitMarker ==
    /\ RetryInit /\ CardIdle /\ PagesIdle /\ ColumnsIdle /\ DetectIdle
    /\ mk_pc = "input"
    /\ mk_card \in [id : MarkerIds, title : Titles, content : Contents]
    /\ mk_out = [title |-> <<>>, description |-> <<>>]
    /\ mk_found = <<>>
    /\ RunIdle
    /\ LimiterIdle
    /\ UsersIdle
    /\ StateIdle

NextMarker == MapCardStep \/ ScanStep

SpecMarker == InitMarker /\ [][NextMarker]_vars

InitUsers ==
    /\ um_bc \in [SourceUsers -> Emails]
    /\ um_config = NoMappings
    /\ um_stored = NoMappings
    /\ um_pc = "idle"
    /\ um_cmd = "none"
    /\ um_interactive = FALSE
    /\ um_mappings = NoMappings
    /\ um_idx = 0
    /\ um_prompts = {}
    /\ um_skipped = 0
    /\ um_cmds = 0
    /\ RetryInit /\ CardIdle /\ PagesIdle /\ ColumnsIdle /\ DetectIdle /\ MarkerIdle /\ LimiterIdle /\ RunIdle /\ StateIdle

NextUsers ==
    \/ \E cmd \in {"map-users", "migrate"}, dryRun \in BOOLEAN : StartMapUsers(cmd, dryRun)
    \/ \E confirm \in BOOLEAN, choice \in 0..Len(FizzyUsers) : MapUser(confirm, choice)
    \/ FinishMapUsers

SpecUsers == InitUsers /\ [][NextUsers]_vars

\* C21: while a command runs, a source user for whom an earlier command
\* stored a mapping with a destination id is shown no prompt, and in an
\* interactive run has that same mapping once the loop has passed it.
C21_NoRepeatedPrompt ==
    um_pc = "loop" =>
        \A u \in SourceUsers :
            um_stored[u] # 0 =>
                /\ \A q \in um_prompts : q.user # u
                /\ (um_interactive /\ um_idx > u) => um_mappings[u] = um_stored[u]

\* The destination users whose address equals the email after trimming and
\* lower-casing both, for a source user that has an email.
SameEmail(email) ==
    {f \in 1..Len(FizzyUsers) :
        /\ email # <<>>
        /\ FizzyUsers[f] # <<>>
        /\ ToLowerCase(Trim(FizzyUsers[f])) = ToLowerCase(Trim(email))}

\* C22: in non-interactive mode no pass of the loop prompts; a user not
\* yet mapped is mapped to a destination user of the same email if there
\* is one, and is else counted skipped and left without mapping.
C22_NonInteractive ==
    [][(um_pc = "loop" /\ ~um_interactive /\ um_idx <= MaxUsers /\ um_idx' = um_idx + 1) =>
          /\ um_prompts' = um_prompts
          /\ um_mappings[um_idx] = 0 =>
                IF SameEmail(um_bc[um_idx]) # {}
                THEN /\ um_mappings'[um_idx] \in SameEmail(um_bc[um_idx])
                     /\ um_skipped' = um_skipped
                ELSE /\ um_mappings'[um_idx] = 0
                     /\ um_skipped' = um_skipped + 1
          /\ \A v \in SourceUsers \ {um_idx} : um_mappings'[v] = um_mappings[v]]_vars

\* A non-interactive call has mapped one user whose email differs from the
\* destination's in case and spaces, and skipped another.
C22_Witness ==
    /\ um_pc = "loop"
    /\ ~um_interactive
    /\ um_idx > MaxUsers
    /\ um_skipped = 1
    /\ um_prompts = {}
    /\ \E u \in SourceUsers :
          /\ um_mappings[u] # 0
          /\ FizzyUsers[um_mappings[u]] # um_bc[u]

InitState ==
    /\ sd_now = 0
    /\ sd_docs = [t \in Times |-> NoDoc]
    /\ sd_procs = [p \in Procs |-> NoProc]
    /\ sd_resume = NoResume
    /\ sd_dest = 0
    /\ RetryInit /\ CardIdle /\ PagesIdle /\ ColumnsIdle /\ DetectIdle /\ MarkerIdle /\ LimiterIdle /\ RunIdle /\ UsersIdle

NextState ==
    \/ TickClock
    \/ \E p \in Procs : CreateState(p)
    \/ \E p \in Procs, ok \in BOOLEAN : MigrateRecord(p, ok)
    \/ \E p \in Procs : CompleteState(p)
    \/ \E id \in Times : ResumeLoad(id)
    \/ \E confirm \in BOOLEAN : ResumeAnswer(confirm)
    \/ ResumeExit

SpecState == InitState /\ [][NextState]_vars

C29_DistinctRunIds ==
    /\ [](\A p, q \in Procs :
            (p # q /\ sd_procs[p].id # NoId /\ sd_procs[q].id # NoId)
                => sd_procs[p].id # sd_procs[q].id)
    /\ [][\A t \in Times :
            sd_docs[t].writer # 0 => sd_docs'[t].writer = sd_docs[t].writer]_vars

\* new RateLimiter(requestsPerSecond): the bucket starts full.
InitCard ==
    /\ mc_pc = "create"
    /\ mc_in \in CardInputs
    /\ mc_i = 0
    /\ mc_calls = <<>>
    /\ mc_warnings = <<>>
    /\ mc_thrown = ""
    /\ RetryInit /\ PagesIdle /\ ColumnsIdle /\ DetectIdle
    /\ MarkerIdle /\ LimiterIdle /\ RunIdle /\ UsersIdle /\ StateIdle

SpecCard == InitCard /\ [][NextCard]_vars

IsPrefix(s, t) == Len(s) <= Len(t) /\ SubSeq(t, 1, Len(s)) = s

Calls(op, n) == [i \in 1..n |-> Call(op, i)]

\* The destination calls of a migrated record, in the order the
\* specification gives them.
ExpectedCalls(in) ==
    << Call("createCard", 0) >>
    \o (CASE in.column_action.type = "not_now" -> << Call("notNowCard", 0) >>
          [] in.column_action.type = "close"   -> << Call("closeCard", 0) >>
          [] in.column_action.type = "triage_to_column" /\ in.column_action.target # 0
                -> << Call("triageCard", in.column_action.target) >>
          [] OTHER -> <<>>)
    \o Calls("assignUser", in.assignee_ids)
    \o Calls("createStep", in.steps)
    \o (IF in.completed THEN << Call("closeCard", 0) >> ELSE <<>>)
    \o (IF in.migrateComments THEN Calls("createComment", in.comments_count) ELSE <<>>)

\* C31: the destination calls for a record are issued in the order
\* createCard, the placement call of its column action (none for
\* keep_triage, and none for a triage_to_column without target id), one
\* assignUser per mapped assignee, one createStep per step, closeCard if the
\* source record is completed, one createComment per comment; a record that
\* returns without a failed comment fetch has had all of them, and a
\* record whose createCard failed gets no other call.
C31_CallOrder ==
    /\ IsPrefix(mc_calls, ExpectedCalls(mc_in))
    /\ (mc_pc = "returned" /\ \A i \in 1..Len(mc_warnings) : mc_warnings[i] # "fetch")
          => mc_calls = ExpectedCalls(mc_in)
    /\ mc_thrown = "createCard" => mc_calls = << Call("createCard", 0) >>
    /\ mc_pc = "threw" => mc_thrown # ""

C31_Witness ==
    /\ mc_pc = "returned"
    /\ mc_in.column_action = getColumnAction(REGULAR, 1)
    /\ mc_in.completed
    /\ mc_in.assignee_ids = 2
    /\ mc_in.steps = 2
    /\ Len(mc_calls) = 8
    /\ mc_calls[8].op = "createComment"
    /\ mc_warnings # <<>>

\* C38: a destination card receives at most one closeCard call.
C38_AtMostOneClosure ==
    Cardinality({i \in 1..Len(mc_calls) : mc_calls[i].op = "closeCard"}) <= 1

InitPages ==
    /\ pg_pc = "idle"
    /\ \E n \in 1..MaxPages, last \in 0..PerPage : pg_server = ServerPages(n, last)
    /\ pg_page = 0
    /\ pg_allCards = <<>>
    /\ pg_requests = <<>>
    /\ pg_calls = 0
    /\ pg_result = <<>>
    /\ RetryInit /\ CardIdle /\ ColumnsIdle /\ DetectIdle
    /\ MarkerIdle /\ LimiterIdle /\ RunIdle /\ UsersIdle /\ StateIdle

\* Every getCards request completes, with a response or an error.
SpecPages ==
    InitPages /\ [][NextPages]_vars /\ WF_vars(\E ok \in BOOLEAN : paginateCards(ok))

\* The cards of the first k pages of the column, in order.
RECURSIVE AllPages(_)
AllPages(k) == IF k = 0 THEN <<>> ELSE AllPages(k - 1) \o pg_server[k].data

PagesInOrder ==
    /\ pg_requests = [i \in 1..Len(pg_requests) |-> i]
    /\ Len(pg_requests) <= Len(pg_server)
    /\ pg_pc = "fetch" => pg_allCards = AllPages(Len(pg_requests))
    /\ pg_pc = "returned" => /\ Len(pg_requests) = Len(pg_server)
                             /\ pg_result = AllPages(Len(pg_server))

\* C33: every invocation of getAllCardsFromColumn requests the pages 1, 2,
\* ... in order, starting at page 1 with an empty result, requests no page
\* after the first one without a next link, and returns the cards of all
\* pages in order; and every invocation ends, by returning or by throwing.
C33_AllPagesInOrder ==
    /\ []PagesInOrder
    /\ (pg_pc = "fetch") ~> (pg_pc \in {"returned", "thrown"})

C33_Witness ==
    /\ pg_pc = "returned"
    /\ pg_calls = 2
    /\ Len(pg_requests) = 3
    /\ Len(pg_result) > Len(pg_server[1].data) + Len(pg_server[2].data)

InitColumns ==
    /\ cm_pc = "columns"
    /\ \E n \in 1..MaxColumns :
          \E f \in [1..n -> ColumnInputs] :
             cm_bc = [k \in 1..n |-> [id |-> k, type |-> f[k].type, title |-> f[k].title]]
    /\ cm_fizzy \in FizzyColumnLists
    /\ cm_dryRun \in BOOLEAN
    /\ cm_result = NoResult
    /\ cm_columns_created = 0
    /\ RetryInit /\ CardIdle /\ PagesIdle /\ DetectIdle
    /\ MarkerIdle /\ LimiterIdle /\ RunIdle /\ UsersIdle /\ StateIdle

NextColumns ==
    \E withId \in BOOLEAN, throwAt \in 0..MaxColumns : phase2_columns(withId, throwAt)

SpecColumns == InitColumns /\ [][NextColumns]_vars

\* The source columns handled as Regular, the destination columns whose
\* title equals a source column's up to case and surrounding whitespace,
\* and the Regular columns without such a column.
RegularColumns ==
    {k \in 1..Len(cm_bc) : detectColumnType(cm_bc[k]) \notin {TRIAGE, NOT_NOW, DONE}}
TitleMatches(k) ==
    {j \in 1..Len(cm_fizzy) :
        Trim(ToLowerCase(cm_fizzy[j])) = Trim(ToLowerCase(cm_bc[k].title))}
Unmatched == {k \in RegularColumns : TitleMatches(k) = {}}

\* The titles createColumn was called with and returned for, in order.
CreatedTitles == SubSeq(cm_result.cols, Len(cm_fizzy) + 1, Len(cm_result.cols))

InitDetect ==
    /\ dt_column \in [id : {1}, type : ColumnTypeTags, title : DetectTitles] \cup {NoColumn}
    /\ dt_type = ""
    /\ RetryInit /\ CardIdle /\ PagesIdle /\ ColumnsIdle
    /\ MarkerIdle /\ LimiterIdle /\ RunIdle /\ UsersIdle /\ StateIdle

NextDetect == DetectStep

SpecDetect == InitDetect /\ [][NextDetect]_vars

\* C34: detectColumnType returns the explicit type tag of a column that has
\* one, whatever its title; without a tag it classifies by the lower-cased
\* title: Triage if it contains triage or maybe, else NotNow if it contains
\* not now or later, else Done if it contains done or completed, else
\* Regular; and Regular for an absent column.
C34_DetectColumnType ==
    dt_type # "" =>
        IF dt_column = NoColumn THEN dt_type = REGULAR
        ELSE IF dt_column.type # "" THEN dt_type = dt_column.type
        ELSE LET name == ToLowerCase(dt_column.title)
                 triage == \E w \in TriageWords : Includes(name, w)
                 notNow == \E w \in NotNowWords : Includes(name, w)
                 done   == \E w \in DoneWords : Includes(name, w)
             IN  /\ triage => dt_type = TRIAGE
                 /\ (~triage /\ notNow) => dt_type = NOT_NOW
                 /\ (~triage /\ ~notNow /\ done) => dt_type = DONE
                 /\ (~triage /\ ~notNow /\ ~done) => dt_type = REGULAR

C34_Witness ==
    /\ dt_type = NOT_NOW
    /\ dt_column.type = ""
    /\ \E w \in DoneWords : Includes(ToLowerCase(dt_column.title), w)

InitLimiter ==
    /\ rl_rate \in Rates
    /\ rl_now = 0
    /\ rl_tokens = rl_rate * Token
    /\ rl_lastRefill = 0
    /\ rl_callers = [c \in Callers |-> Ready]
    /\ rl_granted = <<>>
    /\ RetryInit /\ CardIdle /\ PagesIdle /\ ColumnsIdle /\ DetectIdle /\ MarkerIdle /\ RunIdle /\ UsersIdle /\ StateIdle

NextLimiter ==
    \/ \E c \in Callers : Acquire(c)
    \/ \E c \in Callers : Resume(c)
    \/ \E d \in TimeSteps : Tick(d)

SpecLimiter == InitLimiter /\ [][NextLimiter]_vars

\* C11: over any window of W seconds at most rate * W + 1 acquire calls
\* complete: for any two completed calls, the number of calls completed from
\* the first to the second is at most rate * (time between them) + 1.
C11_RateConserved ==
    \A i \in 1..Len(rl_granted) : \A j \in i..Len(rl_granted) :
        (j - i + 1) * Token <= rl_rate * (rl_granted[j] - rl_granted[i]) + Token

\* C12: acquire returns only when a whole token is there and then takes
\* exactly one; with callers interleaved at the sleep, the token count is
\* never negative and never above the capacity.
C12_TokensInRange ==
    /\ [](rl_tokens >= 0 /\ rl_tokens <= rl_rate * Token)
    /\ [][Len(rl_granted') > Len(rl_granted) =>
            /\ Refilled >= Token
            /\ rl_tokens' = Refilled - Token
            /\ Len(rl_granted') = Len(rl_granted) + 1]_vars
    /\ [][Len(rl_granted') = Len(rl_granted) => rl_tokens' >= rl_tokens]_vars

\* A caller whose sleep is over finds the token it waited for taken at this
\* very moment by the other caller's completed call.
C12_Witness ==
    /\ Len(rl_granted) >= 2
    /\ rl_granted[Len(rl_granted)] = rl_now
    /\ rl_now > 0
    /\ rl_tokens < Token
    /\ \E c \in Callers :
          /\ rl_callers[c].pc = "sleeping"
          /\ rl_callers[c].wakeAt <= rl_now

(***************************************************************************)
(* Claims about runMigration (checked under Spec)                          *)
(***************************************************************************)
\* The source cards in processing order: columns in order, cards in order.
RECURSIVE CardsUpTo(_)
CardsUpTo(n) == IF n = 0 THEN <<>> ELSE CardsUpTo(n - 1) \o SourceColumns[n].cards
AllCards == CardsUpTo(Len(SourceColumns))

CardsWithMarker(id) == {n \in 1..Len(board) : board[n].marker = id}

\* C1: with update-existing off no run creates a card for a source id that
\* already has a card with its marker on the board. Stated for runs whose
\* duplicate scan did not fail.
C1_NoDuplicateCreated ==
    [][(Len(board') > Len(board) /\ ~opts.updateExisting /\ ~scan.failed)
          => CardsWithMarker(board'[Len(board')].marker) = {}]_vars

\* C2: a record skipped as already migrated increments skipped_cards and
\* does not increment successful_cards.
C2_SkipNotSuccessful ==
    [][migration'.skipped_cards > migration.skipped_cards
          => migration'.successful_cards = migration.successful_cards]_vars

\* C3: after the duplicate scan, every card of the board whose description
\* carries a marker of a source id is in existing_cards, however many cards
\* the board holds.
C3_ScanCoversBoard ==
    (pc = "fetch" /\ colIdx = 1 /\ ~scan.failed) =>
        \A n \in 1..Len(board) :
            board[n].marker \in SourceIds => migration.existing_cards[board[n].marker] # 0

\* The positions of the run inside the try block around migrateCard.
MigrateCardPcs == {"card", "create", "place", "assign", "step", "close", "comments", "comment"}

\* C5: an exception thrown by migrateCard is caught: one FailedItem for
\* that record, failed_cards one higher, and the run goes on with the next
\* record, batch or column; a run that reaches Finalization has attempted
\* every record of every column in order.
C5_FailureIsolated ==
    /\ [][(pc \in MigrateCardPcs /\ cardThrew') =>
            /\ migration'.failed_items = Append(migration.failed_items, CurrentCard)
            /\ migration'.failed_cards = migration.failed_cards + 1
            /\ migration'.successful_cards = migration.successful_cards
            /\ processedCount' = processedCount + 1
            /\ pc' = (IF processedCount' < TotalCards
                      THEN (IF inBatch < BatchLen \/ MoreBatches
                            THEN "card" ELSE "fetch")
                      ELSE "finalize")]_vars
    /\ [](pc \in {"finalize", "done"} /\ opts.batchSize.kind # "undefined" => attempted = AllCards)
    /\ [](pc \in {"card", "fetch", "finalize", "done"} =>
            /\ Len(attempted) = processedCount
            /\ attempted = SubSeq(AllCards, 1, processedCount))

C5_Witness ==
    /\ pc = "done"
    /\ Len(migration.failed_items) = 1
    /\ migration.failed_items[1] = AllCards[1]
    /\ attempted = AllCards
    /\ migration.successful_cards = TotalCards - 1

\* C6: Finalization sets status to partial when failed_cards > 0 and to
\* completed otherwise and stamps completed_at; the final status is partial
\* exactly when failed_items is non-empty, whatever the warnings.
C6_FinalStatus ==
    /\ pc = "done" =>
          /\ migration.status = (IF migration.failed_cards > 0 THEN "partial" ELSE "completed")
          /\ migration.completed_at
          /\ (migration.status = "partial") <=> (migration.failed_items # <<>>)
          /\ disk = migration
    /\ pc # "done" =>
          /\ migration.status \in {"none", "in_progress"}
          /\ ~migration.completed_at

C6_Witness ==
    /\ pc = "done"
    /\ migration.status = "completed"
    /\ migration.warnings # <<>>

\* The warning a failing call at position p of migrateCard produces.
SoftFailureAt(p) ==
    CASE p = "assign"   -> "assign_failed"
      [] p = "step"     -> "step_failed"
      [] p = "comments" -> "fetch_comments_failed"
      [] p = "comment"  -> "comment_failed"

\* C7: once the card is created, a failing assignUser, createStep,
\* createComment or comment fetch adds one warning and no FailedItem; the
\* record is counted successful, and a run without FailedItems ends
\* completed with every record counted successful.
C7_SoftFailureIsWarning ==
    /\ [][(pc \in {"assign", "step", "comments", "comment"} /\ failures' > failures) =>
            /\ Len(migration'.warnings) > Len(migration.warnings)
            /\ migration'.warnings[Len(migration.warnings) + 1] = SoftFailureAt(pc)
            /\ \A k \in (Len(migration.warnings) + 2)..Len(migration'.warnings) :
                   migration'.warnings[k] = "unmapped_assignee"
            /\ SubSeq(migration'.warnings, 1, Len(migration.warnings)) = migration.warnings
            /\ migration'.failed_items = migration.failed_items
            /\ migration'.failed_cards = migration.failed_cards
            /\ pc' \in {"card", "fetch", "finalize"} =>
                   migration'.successful_cards = migration.successful_cards + 1]_vars
    /\ [](pc = "done" /\ migration.failed_items = <<>> =>
            /\ migration.status = "completed"
            /\ migration.successful_cards = Len(attempted)
            /\ opts.batchSize.kind # "undefined" => Len(attempted) = TotalCards)

C7_Witness ==
    /\ pc = "done"
    /\ migration.status = "completed"
    /\ migration.successful_cards = TotalCards
    /\ \E k \in 1..Len(migration.warnings) : migration.warnings[k] = "step_failed"

\* C13: with dry-run set the command issues no mutating call to the
\* destination, from its start through Finalization, whatever the other
\* options are.
C13_DryRunMutatesNothing ==
    (pc # "idle" /\ opts.dryRun) => mutations = {}

\* C14: with update-existing set, a record already present in existing_cards
\* gets no second destination card: handling it leaves the number of cards
\* on the board as it is.
C14_UpdateCreatesNoCard ==
    [][(opts.updateExisting /\ pc = "create" /\ migration.existing_cards[cur.id] # 0)
          => Len(board') = Len(board)]_vars

\* The values processed_cards has at the end of a group when every column
\* is cut into groups of n records.
RECURSIVE GroupBoundaries(_, _)
GroupBoundaries(k, n) ==
    IF k = 0 THEN {0}
    ELSE GroupBoundaries(k - 1, n)
         \cup {SumCards(k - 1) + Min(j * n, Len(SourceColumns[k].cards)) :
                  j \in 1..Len(SourceColumns[k].cards)}

\* C15: the run state is persisted after every group: counting the record
\* being migrated, at most batch-size records are processed since the last
\* persist, and processed_cards on disk lies on a group boundary.
C15_CheckpointPerGroup ==
    (pc \in MigrateCardPcs /\ opts.batchSize.kind # "undefined") =>
        /\ processedCount - disk.processed_cards < opts.batchSize.n
        /\ disk.processed_cards \in GroupBoundaries(Len(SourceColumns), opts.batchSize.n)

PhaseRank(phase) ==
    CASE phase = "initialization" -> 0
      [] phase = "column_mapping" -> 1
      [] phase = "user_mapping"   -> 2
      [] phase = "card_migration" -> 3
      [] phase = "finalization"   -> 4
      [] phase = "completed"      -> 5

\* The current_phase the run has at each of its positions.
PhaseAt(p) ==
    CASE p = "discovery" -> "initialization"
      [] p = "columns"   -> "column_mapping"
      [] p = "users"     -> "user_mapping"
      [] p = "finalize"  -> "finalization"
      [] p = "done"      -> "completed"
      [] OTHER           -> "card_migration"

\* C16: within one run the phases are entered in the order Discovery,
\* ColumnSetup, UserMapping, RecordMigration, Finalization: current_phase
\* moves forward one phase at a time and never back, the columns are taken
\* one after the other, and Finalization is reached only after the last.
C16_PhaseOrder ==
    /\ [][(pc # "idle" /\ pc' # "idle") =>
            /\ PhaseRank(migration'.current_phase) - PhaseRank(migration.current_phase)
                  \in {0, 1}
            /\ colIdx' - colIdx \in {0, 1}]_vars
    /\ [](pc \notin {"idle", "aborted"} => migration.current_phase = PhaseAt(pc))
    /\ [](pc \in {"finalize", "done"} => colIdx = Len(SourceColumns))

C16_Witness ==
    /\ pc = "done"
    /\ migration.current_phase = "completed"
    /\ colIdx = Len(SourceColumns)
    /\ attempted = AllCards
    /\ ~opts.skipUserMapping

\* C17: a throw in Discovery or ColumnSetup, a failed column creation
\* included, aborts the run before RecordMigration: the run does nothing
\* more, no card is created in it, and processed_cards, successful_cards,
\* failed_cards and skipped_cards are 0.
C17_EarlyAbort ==
    /\ [][(pc \in {"discovery", "columns"} /\ failures' > failures) => pc' = "aborted"]_vars
    /\ [][(pc \in {"discovery", "columns"}) => board' = board]_vars
    /\ [][(pc = "aborted") => pc' = "idle"]_vars
    /\ [](pc = "aborted" /\ migration.current_phase \in {"initialization", "column_mapping"} =>
            /\ migration.processed_cards = 0
            /\ migration.successful_cards = 0
            /\ migration.failed_cards = 0
            /\ migration.skipped_cards = 0
            /\ attempted = <<>>
            /\ "createCard" \notin mutations)

\* A run aborted by a createColumn that threw after its POST had created
\* the column.
C17_Witness ==
    /\ pc = "aborted"
    /\ migration.current_phase = "column_mapping"
    /\ "createColumn" \in mutations
    /\ Len(columns) > 0

\* C20: after ColumnSetup every source column has one action, of one of
\* the four types, and the action of a Regular column carries a destination
\* column id whenever a destination column of its title exists (matched or
\* created).
C20_ColumnActionsComplete ==
    (pc # "aborted" /\ migration.current_phase \notin {"initialization", "column_mapping"}) =>
        \A k \in 1..Len(SourceColumns) :
            /\ migration.column_mappings[k].type
                  \in {"keep_triage", "not_now", "close", "triage_to_column"}
            /\ SourceColumns[k].type = REGULAR =>
                  /\ migration.column_mappings[k].type = "triage_to_column"
                  /\ findMatchingColumn(SourceColumns[k].title, columns) # 0
                        => migration.column_mappings[k].target # 0

\* The "Unmapped assignee" warnings of a run state.
UnmappedWarnings(m) == Len(SelectSeq(m.warnings, LAMBDA w : w = "unmapped_assignee"))

\* The step in which migrateCard ends, by return or throw, for a record
\* whose createCard call returned a card.
CreatedCardEnds ==
    /\ pc \in MigrateCardPcs
    /\ cur.id # 0
    /\ cur' = NoCard
    /\ cur.number # 0 \/ (pc = "create" /\ ~cardThrew')

\* The assignUser calls made for the current record up to the end of this step.
AssignCalls ==
    IF pc = "create" THEN 0 ELSE (cur.ai - 1) + (IF pc = "assign" THEN 1 ELSE 0)

\* C23: for every record whose destination card is created, by the end of
\* migrateCard each unmapped assignee has produced one warning and no
\* FailedItem, and each mapped assignee has got exactly one assignUser call.
C23_UnmappedAssigneeWarned ==
    [][CreatedCardEnds =>
          /\ UnmappedWarnings(migration') - UnmappedWarnings(migration)
                = Len(UnmappedAssignees(cur.id, migration))
          /\ AssignCalls = Len(MappedAssignees(cur.id, migration))
          /\ Len(migration'.failed_items) > Len(migration.failed_items) => failures' > failures]_vars

\* The checklist items of the source that have an assignee, and all of them.
RECURSIVE AssignedSteps(_)
AssignedSteps(id) ==
    IF id = 0 THEN 0
    ELSE AssignedSteps(id - 1) + Len(SelectSeq(SourceCards[id].steps, LAMBDA u : u # 0))
RECURSIVE AllSteps(_)
AllSteps(id) == IF id = 0 THEN 0 ELSE AllSteps(id - 1) + Len(SourceCards[id].steps)

\* The warnings of a run state that report a dropped checklist assignee.
StepAssigneeWarnings(m) == Len(SelectSeq(m.warnings, LAMBDA w : w = "step_assignee"))

\* C24: the payload of every createStep call carries the item's text and
\* completion flag only, and a run that has created every checklist item
\* has recorded one warning for each item that had an assignee.
C24_StepAssigneeDropped ==
    /\ pc = "step" => StepPayload = {"title", "completed"}
    /\ (pc = "done" /\ migration.steps_migrated = AllSteps(TotalCards)) =>
          StepAssigneeWarnings(migration) = AssignedSteps(TotalCards)

\* C25: a failing fetch in the duplicate scan does not abort the run: the
\* catch block that logs the warning runs (scan.failed), existing_cards is
\* the empty map, the column loop starts, and a run that goes on to
\* Finalization has attempted every source record.
C25_ScanFailureDegrades ==
    /\ [][(pc = "scan" /\ failures' > failures) =>
            /\ pc' = "fetch"
            /\ scan'.failed
            /\ migration'.existing_cards = [id \in SourceIds |-> 0]
            /\ migration'.status = "in_progress"]_vars
    /\ []((scan.failed /\ pc \in {"finalize", "done"}) => attempted = AllCards)

\* A first run, not a dry run, that has ended without any call failing on
\* a board that held no card and no column when it started.
CleanRunEnded ==
    /\ pc = "done"
    /\ runs = 1
    /\ failures = 0
    /\ ~opts.dryRun
    /\ CardsWithMarker(0) = {}

\* C26: the clean run over a Triage column of 2 records and the Regular
\* column 'In Progress' of 3 records creates exactly one destination column
\* and exactly 5 cards, and ends 'completed' with failed_items empty.
C26_CleanRun ==
    CleanRunEnded =>
        /\ Len(columns) = 1
        /\ migration.columns_created = 1
        /\ Len(board) = 5
        /\ migration.status = "completed"
        /\ migration.failed_items = <<>>

\* The records whose migrateCard call has begun and not ended.
InFlight == Len(attempted) - processedCount

C30_EveryRecordOnce ==
    /\ \A k \in 1..Len(attempted) : attempted[k] = AllCards[k]
    /\ pc \in {"finalize", "done"} =>
          /\ attempted = AllCards
          /\ migration.processed_cards = TotalCards

\* C36: the card counters of the run state stay consistent: every processed
\* record is counted successful or failed, every failure has its FailedItem,
\* and skipped records are among the successful ones.
C36_CountersConsistent ==
    /\ migration.processed_cards = migration.successful_cards + migration.failed_cards
    /\ migration.failed_cards = Len(migration.failed_items)
    /\ migration.skipped_cards <= migration.successful_cards

C36_Witness ==
    /\ pc = "done"
    /\ migration.processed_cards = TotalCards
    /\ migration.skipped_cards > 0
    /\ migration.failed_cards > 0
    /\ migration.successful_cards > migration.skipped_cards

C39_PlacedOnceAfterFailure ==
    [][/\ (pc \in {"place", "close"} /\ cardThrew')
            => /\ migration'.failed_cards = migration.failed_cards + 1
               /\ migration'.failed_items = Append(migration.failed_items, cur.id)
               /\ migration'.existing_cards[cur.id] = cur.number
               /\ cur.number # 0
       /\ (pc = "card" /\ ~opts.updateExisting /\ ~opts.dryRun /\ ~scan.failed
              /\ CardsWithMarker(CurrentCard) # {})
            => migration'.skipped_cards = migration.skipped_cards + 1]_vars

\* The destination board before the first run: cards of other origin.
ForeignCards(n) == [k \in 1..n |-> [marker |-> 0, number |-> k]]

Init ==
    /\ LimiterIdle
    /\ UsersIdle
    /\ StateIdle
    /\ RetryInit /\ CardIdle /\ PagesIdle /\ ColumnsIdle /\ DetectIdle
    /\ MarkerIdle
    /\ pc = "idle"
    /\ runs = 0
    /\ opts = [migrateComments |-> FALSE, updateExisting |-> FALSE, dryRun |-> FALSE,
               batchSize |-> [kind |-> "number", n |-> 1], skipUserMapping |-> FALSE]
    /\ \E n \in 0..MaxForeign : board = ForeignCards(n)
    /\ columns = <<>>
    /\ migration = NoMigration
    /\ disk = NoMigration
    /\ colIdx = 0
    /\ batchStart = 0
    /\ inBatch = 0
    /\ processedCount = 0
    /\ cur = NoCard
    /\ failures = 0
    /\ attempted = <<>>
    /\ scan = NoScan
    /\ cardThrew = FALSE
    /\ mutations = {}

Next ==
    \/ \E o \in Options, createBoard \in BOOLEAN : StartRun(o, createBoard)
    \/ Exit
    \/ Discovery
    \/ DiscoveryFail
    \/ \E withId \in BOOLEAN : ColumnSetup(withId)
    \/ \E stage \in {"getColumns", "post", "fetch"} : ColumnSetupFail(stage)
    \/ UserMapping
    \/ UserMappingFail
    \/ Scan
    \/ ScanFail
    \/ FetchColumn
    \/ FetchColumnFail
    \/ BeginCard
    \/ CreateCard
    \/ \E posted \in BOOLEAN : CreateCardFail(posted)
    \/ Place
    \/ PlaceFail
    \/ \E ok \in BOOLEAN : Assign(ok)
    \/ \E ok \in BOOLEAN : Step(ok)
    \/ Close
    \/ CloseFail
    \/ \E ok \in BOOLEAN : FetchComments(ok)
    \/ \E ok \in BOOLEAN : Comment(ok)
    \/ Finalize

Spec == Init /\ [][Next]_vars

====
